---- MODULE Spec2Model ----
(***************************************************************************)
(* Model of the pawndropper chess engine core: Board (board.rs),           *)
(* MoveBitboards (move_bitboards.rs), ZobristHasher (zobrist.rs) and       *)
(* GameState (game.rs).                                                    *)
(*                                                                         *)
(* A u64 bitboard is modelled as the set of its set bits (a subset of      *)
(* 0..63): | is \cup, & is \cap, & !x is \ x, 1 << s is {s},               *)
(* trailing_zeros is the minimum and 63 - leading_zeros the maximum.       *)
(* Side is 0 (White) / 1 (Black) and Piece is 0..5 as in board.rs.         *)
(***************************************************************************)
EXTENDS Integers, FiniteSets, Sequences, Bags, TLC

\* ---------------------------------------------------------------- bounds
MaxPly == 2
MaxUndos == 1
\* largest number of blockers on the board when ray attacks are compared
MaxBlockers == 2
LongCycles == 26

\* ------------------------------------------------------- board constants
BOARD_WIDTH == 8
BOARD_HEIGHT == 8
N_SQUARES == BOARD_WIDTH * BOARD_HEIGHT

White == 0
Black == 1
Side_VALUES == {White, Black}

Pawn == 0
Knight == 1
Bishop == 2
Rook == 3
Queen == 4
King == 5
Piece_VALUES == 0..5
ALL_BUT_KING == 0..4
PROMOTION_PIECES == {Knight, Bishop, Rook, Queen}

Squares == 0..(N_SQUARES - 1)
ALL_ONES == Squares

opposite(side) == 1 - side

is_slider(piece) == piece > 1 /\ piece < 5

file(square) == square % BOARD_WIDTH

rank(square) == square \div BOARD_HEIGHT

\* the value of a local that is computed once and used in several places:
\* Only({e : x \in {v}}) is e with x bound to v
Only(S) == CHOOSE r \in S : TRUE

\* the sum of f[x] over the domain of f, for f[x] >= 0: the bag holding
\* f[x] + 1 copies of each x has that many elements more than the domain
SumOver(f) == BagCardinality([x \in DOMAIN f |-> f[x] + 1]) - Cardinality(DOMAIN f)

\* trailing_zeros of a non-empty bitboard
trailing_zeros(bb) == CHOOSE x \in bb : \A y \in bb : x <= y

\* u64::BITS - 1 - leading_zeros of a non-empty bitboard
highest_bit(bb) == CHOOSE x \in bb : \A y \in bb : x >= y

\* ------------------------------------------------------- RayDirection
North == 0
East == 1
South == 2
West == 3
NorthEast == 4
SouthEast == 5
SouthWest == 6
NorthWest == 7
BISHOP_DIRECTIONS == <<NorthEast, SouthEast, SouthWest, NorthWest>>
ROOK_DIRECTIONS == <<North, East, South, West>>

\* ------------------------------------------- MoveBitboards::init_* tables
\* single pushes only: the double push from the starting rank is left out
init_pawn_moves_single_push(side, square) ==
  IF side = White
  THEN IF rank(square) # BOARD_HEIGHT - 1 THEN {square + BOARD_WIDTH} ELSE {}
  ELSE IF rank(square) # 0 THEN {square - BOARD_WIDTH} ELSE {}

init_pawn_moves(side, square) ==
  IF side = White
  THEN IF rank(square) # BOARD_HEIGHT - 1
       THEN {square + BOARD_WIDTH}
            \cup (IF rank(square) = 1 THEN {square + 2 * BOARD_WIDTH} ELSE {})
       ELSE {}
  ELSE IF rank(square) # 0
       THEN {square - BOARD_WIDTH}
            \cup (IF rank(square) = BOARD_HEIGHT - 2 THEN {square - 2 * BOARD_WIDTH} ELSE {})
       ELSE {}

init_pawn_capture_moves(side, square) ==
  IF side = White
  THEN IF rank(square) # BOARD_HEIGHT - 1
       THEN (IF file(square) # BOARD_WIDTH - 1 THEN {square + BOARD_WIDTH + 1} ELSE {})
            \cup (IF file(square) # 0 THEN {square + BOARD_WIDTH - 1} ELSE {})
       ELSE {}
  ELSE IF rank(square) # 0
       THEN (IF file(square) # BOARD_WIDTH - 1 THEN {square - BOARD_WIDTH + 1} ELSE {})
            \cup (IF file(square) # 0 THEN {square - BOARD_WIDTH - 1} ELSE {})
       ELSE {}

init_knight_moves(square) ==
  LET f == file(square)
      r == rank(square)
  IN  (IF r <= BOARD_WIDTH - 3
       THEN (IF f # BOARD_WIDTH - 1 THEN {square + 2 * BOARD_WIDTH + 1} ELSE {})
            \cup (IF f # 0 THEN {square + 2 * BOARD_WIDTH - 1} ELSE {})
       ELSE {})
      \cup
      (IF r >= 2
       THEN (IF f # BOARD_WIDTH - 1 THEN {square - 2 * BOARD_WIDTH + 1} ELSE {})
            \cup (IF f # 0 THEN {square - 2 * BOARD_WIDTH - 1} ELSE {})
       ELSE {})
      \cup
      (IF f <= BOARD_WIDTH - 3
       THEN (IF r # 7 THEN {square + 2 + BOARD_WIDTH} ELSE {})
            \cup (IF r # 0 THEN {square + 2 - BOARD_WIDTH} ELSE {})
       ELSE {})
      \cup
      (IF f >= 2
       THEN (IF r # 7 THEN {square - 2 + BOARD_WIDTH} ELSE {})
            \cup (IF r # 0 THEN {square - 2 - BOARD_WIDTH} ELSE {})
       ELSE {})

init_king_moves(square) ==
  LET f == file(square)
      r == rank(square)
  IN  (IF f # 7 THEN {square + 1} ELSE {})
      \cup (IF f # 0 THEN {square - 1} ELSE {})
      \cup (IF r # 7 THEN {square + BOARD_WIDTH} ELSE {})
      \cup (IF r # 0 THEN {square - BOARD_WIDTH} ELSE {})
      \cup (IF f # 7 /\ r # 7 THEN {square + BOARD_WIDTH + 1} ELSE {})
      \cup (IF f # 0 /\ r # 7 THEN {square + BOARD_WIDTH - 1} ELSE {})
      \cup (IF f # 7 /\ r # 0 THEN {square - BOARD_WIDTH + 1} ELSE {})
      \cup (IF f # 0 /\ r # 0 THEN {square - BOARD_WIDTH - 1} ELSE {})

\* The eight rays of a square, as the loops of init_bishop_moves and
\* init_rook_moves build them.
init_ray(direction, square) ==
  LET f == file(square)
      r == rank(square)
  IN  CASE direction = NorthWest ->
             IF r < BOARD_WIDTH - 1 /\ f < BOARD_HEIGHT - 1
             THEN {square + i * (BOARD_WIDTH + 1) : i \in
                     {k \in 1..7 : square + k * (BOARD_WIDTH + 1) <= N_SQUARES - 1
                                   /\ k < BOARD_WIDTH - f}}
             ELSE {}
        [] direction = SouthEast ->
             IF r > 0 /\ f > 0
             THEN {square - i * (BOARD_WIDTH + 1) : i \in
                     {k \in 1..7 : square - k * (BOARD_WIDTH + 1) >= 0 /\ k <= f}}
             ELSE {}
        [] direction = NorthEast ->
             IF r < BOARD_WIDTH - 1 /\ f > 0
             THEN {square + i * (BOARD_WIDTH - 1) : i \in
                     {k \in 1..7 : square + k * (BOARD_WIDTH - 1) <= N_SQUARES - 1
                                   /\ k <= f}}
             ELSE {}
        [] direction = SouthWest ->
             IF r > 0 /\ f < BOARD_WIDTH - 1
             THEN {square - i * (BOARD_WIDTH - 1) : i \in
                     {k \in 1..7 : square - k * (BOARD_WIDTH - 1) >= 0
                                   /\ k < BOARD_WIDTH - f}}
             ELSE {}
        [] direction = West -> {square + i : i \in 1..(BOARD_WIDTH - 1 - f)}
        [] direction = East -> {square - i : i \in 1..f}
        [] direction = North -> {square + i * BOARD_WIDTH : i \in 1..(BOARD_HEIGHT - 1 - r)}
        [] direction = South -> {square - i * BOARD_WIDTH : i \in 1..r}

pawn_moves_tbl == [side \in Side_VALUES |-> [square \in Squares |-> init_pawn_moves(side, square)]]

pawn_capture_moves == [side \in Side_VALUES |-> [square \in Squares |-> init_pawn_capture_moves(side, square)]]

knight_moves == [square \in Squares |-> init_knight_moves(square)]

king_moves == [square \in Squares |-> init_king_moves(square)]

rays == [direction \in 0..7 |-> [square \in Squares |-> init_ray(direction, square)]]

\* "01111110" on ranks 1..6 (EDGE_MASK of init_bishop_moves)
EDGE_MASK == {s \in Squares : rank(s) \in 1..6 /\ file(s) \in 1..6}

bishop_comp_ray(square) ==
  rays[NorthWest][square] \cup rays[SouthWest][square]
    \cup rays[SouthEast][square] \cup rays[NorthEast][square]

rook_comp_ray(square) ==
  rays[North][square] \cup rays[South][square]
    \cup rays[West][square] \cup rays[East][square]

bishop_masks == [square \in Squares |-> bishop_comp_ray(square) \cap EDGE_MASK]

\* rook_masks that keep the edge squares of the file and of the rank
rook_masks_with_edges == [square \in Squares |-> rook_comp_ray(square)]

rook_masks ==
  [square \in Squares |->
     rook_comp_ray(square)
       \ {file(square),
          (BOARD_WIDTH - 1) * BOARD_WIDTH + file(square),
          BOARD_WIDTH * rank(square) + BOARD_WIDTH - 1,
          BOARD_WIDTH * rank(square)}]

queen_masks == [square \in Squares |-> rook_masks[square] \cup bishop_masks[square]]

\* comp_rays[piece - SLIDER_START_VALUE][square]
comp_rays ==
  [piece \in {Bishop, Rook, Queen} |->
     [square \in Squares |->
        CASE piece = Bishop -> bishop_comp_ray(square)
          [] piece = Rook -> rook_comp_ray(square)
          [] piece = Queen -> bishop_comp_ray(square) \cup rook_comp_ray(square)]]

\* Index<(Piece, Side, usize)> for MoveBitboards
pl_moves(piece, side, square) ==
  CASE piece = Pawn -> pawn_moves_tbl[side][square]
    [] piece = Knight -> knight_moves[square]
    [] piece = Bishop -> bishop_masks[square]
    [] piece = Rook -> rook_masks[square]
    [] piece = Queen -> queen_masks[square]
    [] piece = King -> king_moves[square]

get_piece_blocker_mask(piece, square) ==
  CASE piece = Rook -> rook_masks[square]
    [] piece = Bishop -> bishop_masks[square]
    [] piece = Queen -> queen_masks[square]

\* One iteration of the direction loop of get_bishop_rays / get_rook_rays;
\* low_first tells whether the nearest blocker is the lowest set bit.
ray_step(moves_bb, direction, square, blocker_mask, low_first) ==
  LET ray == rays[direction][square]
      acc == moves_bb \cup ray
      blockers == ray \cap blocker_mask
  IN  IF blockers # {}
      THEN LET nearest_blocker_square ==
                 IF low_first THEN trailing_zeros(blockers) ELSE highest_bit(blockers)
           IN  acc \ rays[direction][nearest_blocker_square]
      ELSE acc

get_bishop_rays(square, blocker_mask) ==
  LET m1 == ray_step({}, NorthEast, square, blocker_mask, TRUE)
      m2 == ray_step(m1, SouthEast, square, blocker_mask, FALSE)
      m3 == ray_step(m2, SouthWest, square, blocker_mask, FALSE)
  IN  ray_step(m3, NorthWest, square, blocker_mask, TRUE)

\* get_rook_rays that takes the lowest blocker as the nearest one in every
\* direction
get_rook_rays_lowest_blocker(square, blocker_mask) ==
  LET m1 == ray_step({}, North, square, blocker_mask, TRUE)
      m2 == ray_step(m1, East, square, blocker_mask, TRUE)
      m3 == ray_step(m2, South, square, blocker_mask, TRUE)
  IN  ray_step(m3, West, square, blocker_mask, TRUE)

get_rook_rays(square, blocker_mask) ==
  LET m1 == ray_step({}, North, square, blocker_mask, TRUE)
      m2 == ray_step(m1, East, square, blocker_mask, FALSE)
      m3 == ray_step(m2, South, square, blocker_mask, FALSE)
  IN  ray_step(m3, West, square, blocker_mask, TRUE)

\* MagicBitboard::get_rook_moves / get_bishop_moves as the move generator
\* uses them: the table slot of (square, blockers) holds what
\* init_move_table stored for that blocker subset, get_rook_rays /
\* get_bishop_rays of it (C21_MagicLookupIsRayWalk checks the tables).
get_rook_moves(square, blockers) == get_rook_rays(square, blockers)

get_bishop_moves(square, blockers) == get_bishop_rays(square, blockers)

\* ------------------------------------------------------ MagicBitboard
\* A u64 that takes part in a multiplication is kept as four 16-bit limbs,
\* lowest first; U64 takes them in the order of the hexadecimal digits.
LIMB == 65536

U64(l3, l2, l1, l0) == <<l0, l1, l2, l3>>

ROOK_SQUARE_BITS ==
  <<12, 11, 11, 11, 11, 11, 11, 12,
    11, 10, 10, 10, 10, 10, 10, 11,
    11, 10, 10, 10, 10, 10, 10, 11,
    11, 10, 10, 10, 10, 10, 10, 11,
    11, 10, 10, 10, 10, 10, 10, 11,
    11, 10, 10, 10, 10, 10, 10, 11,
    11, 10, 10, 10, 10, 10, 10, 11,
    12, 11, 11, 11, 11, 11, 11, 12>>

BISHOP_SQUARE_BITS ==
  << 6,  5,  5,  5,  5,  5,  5,  6,
     5,  5,  5,  5,  5,  5,  5,  5,
     5,  5,  7,  7,  7,  7,  5,  5,
     5,  5,  7,  9,  9,  7,  5,  5,
     5,  5,  7,  9,  9,  7,  5,  5,
     5,  5,  7,  7,  7,  7,  5,  5,
     5,  5,  5,  5,  5,  5,  5,  5,
     6,  5,  5,  5,  5,  5,  5,  6>>

PRECOMP_ROOK_MAGICS ==
  <<U64(\h0080, \h0830, \h4001, \h8020),  \* 36037800344256544
    U64(\h0040, \h0046, \h1002, \h6000),  \* 18014699425783808
    U64(\h0880, \h1000, \h08A0, \h0082),  \* 612507141653135490
    U64(\h0280, \h0518, \h0210, \h0080),  \* 180149585766776960
    U64(\h8200, \h200A, \h0018, \h0450),  \* 9367522452253967440
    U64(\h1100, \h0400, \h0208, \h2300),  \* 1224983496725373696
    U64(\h4100, \h4081, \h001C, \h0200),  \* 4683814535262110208
    U64(\h0200, \h0A04, \h0040, \h8221),  \* 144126200376230433
    U64(\h2104, \h8000, \h2280, \h4011),  \* 2379167241225650193
    U64(\h0000, \h8040, \h0A80, \h2002),  \* 141012542431234
    U64(\h0800, \h8010, \h0180, \h2000),  \* 576601558536429568
    U64(\h4D80, \h8008, \h0080, \h9000),  \* 5584604309795934208
    U64(\h80C5, \h0051, \h0004, \h7800),  \* 9278822955159418880
    U64(\h0002, \h0010, \h0600, \hC418),  \* 563018773611544
    U64(\h0001, \h8045, \h0002, \h0080),  \* 422508817940608
    U64(\h000C, \h8000, \h4080, \h0100),  \* 3518438291013888
    U64(\h000C, \h8080, \h0020, \h4000),  \* 3518986966810624
    U64(\h7050, \h0040, \h0220, \h0852),  \* 8092968805298341970
    U64(\h0000, \h8080, \h1004, \h2008),  \* 141287512875016
    U64(\h0180, \h8080, \h0800, \h1000),  \* 108227678435282944
    U64(\h2004, \h8280, \h0400, \h0801),  \* 2307112395455072257
    U64(\h4201, \h0100, \h0812, \h0400),  \* 4756083781126980608
    U64(\h0480, \h5400, \h1008, \h8611),  \* 324351532416402961
    U64(\h1400, \h0200, \h0081, \h1244),  \* 1441154079790273092
    U64(\h0080, \h8020, \h8002, \h4000),  \* 36169674093903872
    U64(\h0340, \hC000, \h8020, \h0280),  \* 234398289005380224
    U64(\h0000, \h2000, \h8010, \h0080),  \* 35186520621184
    U64(\h0280, \h5000, \h8008, \h0182),  \* 180231948173050242
    U64(\h2030, \h3005, \h0008, \h0100),  \* 2319406606129299712
    U64(\h264A, \h0046, \h0010, \h080C),  \* 2759018022366611468
    U64(\h0001, \h0403, \h0100, \h0200),  \* 285885924901376
    U64(\h0014, \h5082, \h0020, \h5401),  \* 5718018812302337
    U64(\h0000, \h8240, \h0080, \h0060),  \* 143211397906528
    U64(\h0009, \h0124, \h8100, \h4000),  \* 2534531085123584
    U64(\h0001, \h8290, \h0380, \h2000),  \* 425030022340608
    U64(\h0005, \h8800, \h8080, \h5000),  \* 1556910620823552
    U64(\h0100, \h8400, \h8080, \h0800),  \* 72202731728668672
    U64(\h020A, \h800A, \h0080, \h0401),  \* 147070718289380353
    U64(\hA400, \h1008, \h0400, \h0122),  \* 11817463048833073442
    U64(\h0C10, \h8003, \h6280, \h1100),  \* 869335480108323072
    U64(\h0901, \h2980, \h4002, \h8000),  \* 648845452124520448
    U64(\h8240, \h6004, \h5000, \h4004),  \* 9385607195078443012
    U64(\h0007, \h00A0, \h0141, \h0014),  \* 1971012052779028
    U64(\h9844, \h1042, \h000A, \h0020),  \* 10971912467835912224
    U64(\h0209, \h0040, \h8030, \h0220),  \* 146648739894788640
    U64(\h1002, \h000C, \h0802, \h0010),  \* 1153484506234224656
    U64(\h5828, \h0512, \h1024, \h0008),  \* 6352332849544429576
    U64(\h0200, \h0042, \h8906, \h0004),  \* 144115473842569220
    U64(\h2082, \h0104, \h2180, \h4200),  \* 2342435873439629824
    U64(\h2100, \h4010, \h2001, \h8080),  \* 2377971041252245632
    U64(\h0410, \h0060, \h0080, \h1480),  \* 292734388104336512
    U64(\h1001, \h0800, \h8010, \h0080),  \* 1153211777825112192
    U64(\h0410, \h8411, \h0038, \h0100),  \* 292879184332062976
    U64(\h0021, \h0002, \h0400, \h0900),  \* 9288682888497408
    U64(\h0902, \h1008, \h0102, \h8C00),  \* 649098922857499648
    U64(\h8000, \h0904, \h8C44, \h0200),  \* 9223381951992562176
    U64(\h80A0, \h4080, \h0120, \h5101),  \* 9268478951647367425
    U64(\h01C0, \h8011, \h4000, \h2101),  \* 126241601142923521
    U64(\h2050, \h4030, \h6001, \h0089),  \* 2328431583863832713
    U64(\h0000, \h5001, \h00E0, \h0805),  \* 87965239871493
    U64(\h4043, \h0008, \h0044, \h102B),  \* 4630544876231200811
    U64(\h0041, \h004C, \h0018, \h0601),  \* 18296199905281537
    U64(\hC087, \h0002, \h000C, \h0083),  \* 13873057185728823427
    U64(\h0010, \h2461, \h0680, \h4402)   \* 4543598766867458
  >>

PRECOMP_BISHOP_MAGICS ==
  <<U64(\h0484, \h1404, \h2044, \h0101),  \* 325407081031270657
    U64(\h0220, \h0C01, \h8200, \h41A0),  \* 153135587946152352
    U64(\h1124, \h084A, \h00C4, \h0000),  \* 1235121311739805696
    U64(\h890C, \h0522, \h0008, \h0800),  \* 9875273726504208384
    U64(\h2B68, \h4840, \h0001, \h0082),  \* 3127829380923981954
    U64(\h0022, \h0802, \h0880, \h8000),  \* 9578954033758208
    U64(\h0602, \h0814, \h6404, \h0010),  \* 432917397851340816
    U64(\h0802, \h0202, \h841C, \h0224),  \* 577025912086463012
    U64(\h9040, \h0408, \h0808, \h20A0),  \* 10394312372512104608
    U64(\h0000, \h0828, \h0088, \h8201),  \* 8967900660225
    U64(\h0004, \h0806, \h1402, \h2000),  \* 1134722105352192
    U64(\h0010, \h6441, \h0022, \h8400),  \* 4613829965284352
    U64(\h0000, \h0848, \hC011, \h0012),  \* 9108553007122
    U64(\h0220, \h0124, \h2020, \h0400),  \* 153123642000016384
    U64(\h0040, \h0998, \h0848, \h0400),  \* 18024947088098304
    U64(\h0010, \h0600, \h4414, \h04C2),  \* 4510197839299778
    U64(\h0020, \h0340, \h0284, \h1106),  \* 9010772709740806
    U64(\h000B, \h1450, \h6401, \h0400),  \* 3118560251544576
    U64(\h6210, \h0028, \h0080, \h3014),  \* 7066147987151400980
    U64(\h1220, \h8408, \h0200, \h4000),  \* 1306189061865619456
    U64(\h8255, \h000B, \h9040, \h0C18),  \* 9391412647615794200
    U64(\h1022, \h0009, \h0041, \h0400),  \* 1162491692473975808
    U64(\h0120, \h9000, \h4404, \h2002),  \* 81223124108189698
    U64(\h4100, \h8042, \h0084, \h0181),  \* 4683884633430163841
    U64(\h0020, \h1244, \h2004, \h1300),  \* 9027283058955008
    U64(\h0004, \h0C00, \h0A18, \h0800),  \* 1139094215723008
    U64(\hE004, \h1200, \h0408, \h0810),  \* 16142046755679635472
    U64(\h0001, \h0800, \h1008, \h2020),  \* 290271338700832
    U64(\hC007, \h0804, \h0300, \h4010),  \* 13837037193442377744
    U64(\h00C8, \h0200, \h8840, \h4201),  \* 56297196651299329
    U64(\h0000, \h8980, \h1E08, \h0400),  \* 151183352660992
    U64(\h8064, \h0188, \h00A2, \h1100),  \* 9251521218163642624
    U64(\h0010, \h0C04, \hA110, \h1040),  \* 4516813648957504
    U64(\h4000, \h8228, \h0A10, \h1080),  \* 4611829126906515584
    U64(\h5801, \h402A, \h0250, \h0404),  \* 6341420299485971460
    U64(\h8C01, \h0080, \h8008, \h0060),  \* 10088345192190443616
    U64(\h4088, \h0204, \h0005, \h1100),  \* 4649968831463493888
    U64(\h0001, \hA801, \h4022, \h0100),  \* 466198301114624
    U64(\h0082, \h0400, \h4901, \h0808),  \* 36596146243700744
    U64(\h0013, \h4903, \h0122, \h0040),  \* 5428301810237504
    U64(\h2049, \h0120, \h2000, \h1000),  \* 2326391920001028096
    U64(\h6002, \h05A2, \h2850, \h2001),  \* 6918098171613683713
    U64(\h8001, \h0018, \h0408, \h8200),  \* 9223653614978368000
    U64(\h4104, \h01E0, \h1800, \h6900),  \* 4684871574359140608
    U64(\h0000, \h820A, \h0A04, \h0402),  \* 142979629319170
    U64(\h09B0, \h2008, \h0020, \h1041),  \* 698093160976355393
    U64(\h0048, \h5848, \h0040, \h0090),  \* 20363264588251280
    U64(\h2004, \h0184, \h8300, \h0604),  \* 2306970577765664260
    U64(\h0004, \h0384, \h5420, \h1081),  \* 1129766788796545
    U64(\h0001, \h0400, \hA405, \h0000),  \* 285875775012864
    U64(\h1200, \h5202, \h0114, \h0180),  \* 1297126861244203392
    U64(\h0240, \h0000, \h4202, \h2055),  \* 162129587692773461
    U64(\h0002, \h8040, \h1041, \h2000),  \* 703962592387072
    U64(\h8404, \h0410, \h0448, \h4020),  \* 9512732779751161888
    U64(\h0009, \h0801, \h0404, \h10D0),  \* 2542075245760720
    U64(\h0008, \h0200, \h8222, \h0005),  \* 2254001020207109
    U64(\h0002, \h0080, \h4110, \h5010),  \* 563500800823312
    U64(\h2000, \h0602, \h0104, \h0600),  \* 2305849614890436096
    U64(\h0402, \h8040, \h4208, \h0C40),  \* 288934339579219008
    U64(\h0000, \h0030, \h0042, \h1200),  \* 206162760192
    U64(\h2080, \h8919, \h2060, \h4100),  \* 2342022547243024640
    U64(\h0404, \h0828, \h0208, \h0200),  \* 289365243984347648
    U64(\h0100, \hC508, \h5001, \h4200),  \* 72274233530597888
    U64(\h1408, \hE110, \h0202, \h4500)   \* 1443651139441673472
  >>

\* x << n on a u64: bits shifted past bit 63 are lost
shl64(x, n) ==
  LET q == n \div 16
      k == n % 16
      limb(j) == IF j >= 1 /\ j <= 4 THEN x[j] ELSE 0
  IN  [j \in 1..4 |->
         (limb(j - q) % (2 ^ (16 - k))) * (2 ^ k) + limb(j - q - 1) \div (2 ^ (16 - k))]

\* blockers.wrapping_mul(magic): blockers is a set of bits, so the product
\* is the sum of magic << b over its bits b, modulo 2^64
wrapping_mul(blockers, magic) ==
  Only({
    LET c1 == sum[1] \div LIMB
        c2 == (sum[2] + c1) \div LIMB
        c3 == (sum[3] + c2) \div LIMB
    IN  <<sum[1] % LIMB, (sum[2] + c1) % LIMB, (sum[3] + c2) % LIMB, (sum[4] + c3) % LIMB>>
    : sum \in {Only({[j \in 1..4 |-> SumOver([b \in blockers |-> shifted[b][j]])]
                      : shifted \in {[b \in blockers |-> shl64(magic, b)]}})}})

\* magic_index taking the bits one place below the top ones
magic_index_one_bit_lower(magic, blockers, bits) ==
  (wrapping_mul(blockers, magic)[4] % (2 ^ 15)) \div (2 ^ (15 - bits))

\* (blockers.wrapping_mul(magic)) >> (64 - bits): the top bits of the
\* product, for bits <= 16
magic_index(magic, blockers, bits) ==
  wrapping_mul(blockers, magic)[4] \div (2 ^ (16 - bits))

\* bit i of idx selects the i-th lowest square of the mask
get_blocker_from_idx(idx, mask) ==
  {pos \in mask : (idx \div (2 ^ Cardinality({q \in mask : q < pos}))) % 2 = 1}

\* the masks, square bits, table size and ray function that
\* init_move_table and compute_magics select by piece (Bishop, else Rook)
magic_masks(piece) == IF piece = Bishop THEN bishop_masks ELSE rook_masks

magic_square_bits(piece, square) ==
  IF piece = Bishop THEN BISHOP_SQUARE_BITS[square + 1] ELSE ROOK_SQUARE_BITS[square + 1]

magic_table_size(piece) == IF piece = Bishop THEN 9 ELSE 12

magic_rays(piece, square, blockers) ==
  IF piece = Bishop THEN get_bishop_rays(square, blockers)
  ELSE get_rook_rays(square, blockers)

\* The blocker_idx loop of init_move_table for one square, over lo..hi-1:
\* a later blocker_idx overwrites the slot of an earlier one.
RECURSIVE init_move_table_loop(_, _, _, _, _, _)
init_move_table_loop(table, piece, square, magic, lo, hi) ==
  IF hi = lo THEN table
  ELSE IF hi = lo + 1
  THEN Only({[table EXCEPT
                ![magic_index(magic, blockers, magic_square_bits(piece, square))] =
                  magic_rays(piece, square, blockers)]
             : blockers \in {get_blocker_from_idx(lo, magic_masks(piece)[square])}})
  ELSE Only({init_move_table_loop(half, piece, square, magic, (lo + hi) \div 2, hi)
             : half \in {init_move_table_loop(table, piece, square, magic,
                                              lo, (lo + hi) \div 2)}})

init_move_table(piece, square, magic) ==
  init_move_table_loop([i \in 0..(2 ^ magic_table_size(piece) - 1) |-> {}],
                       piece, square, magic, 0, 2 ^ magic_square_bits(piece, square))

\* compute_magics keeps a magic for a square when no two blocker_idx of the
\* square share a table index, and draws another one otherwise
is_perfect_magic(piece, square, magic) ==
  Cardinality({magic_index(magic,
                           get_blocker_from_idx(blocker_idx, magic_masks(piece)[square]),
                           magic_square_bits(piece, square))
               : blocker_idx \in 0..(2 ^ magic_square_bits(piece, square) - 1)})
    = 2 ^ magic_square_bits(piece, square)

PRECOMP_MAGICS(piece) ==
  IF piece = Bishop THEN PRECOMP_BISHOP_MAGICS ELSE PRECOMP_ROOK_MAGICS

\* The slice of a MagicBitboard that belongs to one piece and one square:
\* the magic of the square and the table of the square.  Tables of
\* different squares are separate arrays that init_move_table fills
\* independently of each other.
MagicBitboard(built_by, piece, square, magic) ==
  [built_by |-> built_by, piece |-> piece, square |-> square, magic |-> magic,
   table |-> init_move_table(piece, square, magic)]

MagicBitboard_init_precomputed(piece, square) ==
  MagicBitboard("init_precomputed", piece, square, PRECOMP_MAGICS(piece)[square + 1])

\* MagicBitboard::init with the magic that compute_magics found
MagicBitboard_init(piece, square, magic) == MagicBitboard("init", piece, square, magic)

\* MagicBitboard::get_rook_moves / get_bishop_moves on the slice
MagicBitboard_get_moves(mb, square, blockers) ==
  mb.table[magic_index(mb.magic, blockers, magic_square_bits(mb.piece, square))]

\* ------------------------------------------------------------- Move
NoPiece == 6

\* MoveType, a tagged value: victim and promo are NoPiece where the variant
\* has no such field.
Quiet == [tag |-> "Quiet", victim |-> NoPiece, promo |-> NoPiece]
EnPassantCapture(p) == [tag |-> "EnPassantCapture", victim |-> p, promo |-> NoPiece]
Capture(p) == [tag |-> "Capture", victim |-> p, promo |-> NoPiece]
CastleLong == [tag |-> "CastleLong", victim |-> NoPiece, promo |-> NoPiece]
CastleShort == [tag |-> "CastleShort", victim |-> NoPiece, promo |-> NoPiece]
Promotion(p) == [tag |-> "Promotion", victim |-> NoPiece, promo |-> p]
CapturePromotion(v, p) == [tag |-> "CapturePromotion", victim |-> v, promo |-> p]

Move(from_square, to_square, move_type, piece, side) ==
  [from_square |-> from_square, to_square |-> to_square, move_type |-> move_type,
   piece |-> piece, side |-> side]

is_capture(m) == m.move_type.tag \in {"Capture", "CapturePromotion", "EnPassantCapture"}

is_promotion(m) == m.move_type.tag \in {"Promotion", "CapturePromotion"}

is_castling(m) == m.move_type.tag \in {"CastleShort", "CastleLong"}

\* ------------------------------------------------------------- Board
\* pieces[piece][side] is Index<(Piece, Side)> for Board.
EmptyPieces == [piece \in Piece_VALUES |-> [side \in Side_VALUES |-> {}]]

Board_default ==
  [pieces |->
     [piece \in Piece_VALUES |->
        [side \in Side_VALUES |->
           CASE piece = Pawn -> IF side = White THEN 8..15 ELSE 48..55
             [] piece = Knight -> IF side = White THEN {1, 6} ELSE {57, 62}
             [] piece = Bishop -> IF side = White THEN {2, 5} ELSE {58, 61}
             [] piece = Rook -> IF side = White THEN {0, 7} ELSE {56, 63}
             [] piece = Queen -> IF side = White THEN {4} ELSE {60}
             [] piece = King -> IF side = White THEN {3} ELSE {59}]],
   side_to_move |-> White,
   en_passant_square |-> 0,
   castling_right_long |-> [side \in Side_VALUES |-> TRUE],
   castling_right_short |-> [side \in Side_VALUES |-> TRUE]]

ROOK_SHORT_SQUARES == [side \in Side_VALUES |-> IF side = White THEN 0 ELSE BOARD_WIDTH * (BOARD_HEIGHT - 1)]

ROOK_LONG_SQUARES == [side \in Side_VALUES |-> IF side = White THEN BOARD_WIDTH - 1 ELSE BOARD_WIDTH * BOARD_HEIGHT - 1]

\* bb <<= n and bb >>= n on a u64: bits shifted past either end are lost.
shl(bb, n) == {s + n : s \in bb} \cap Squares

shr(bb, n) == {s - n : s \in bb} \cap Squares

\* update_en_passant_flag that sets the square behind any quiet pawn move
update_en_passant_flag_any_push(b, m) ==
  LET n_ranks_moved == m.to_square - m.from_square
      signum == IF n_ranks_moved < 0 THEN 0 - 1 ELSE IF n_ranks_moved > 0 THEN 1 ELSE 0
  IN  IF m.piece = Pawn /\ m.move_type = Quiet
      THEN [b EXCEPT !.en_passant_square = m.to_square - signum * BOARD_WIDTH]
      ELSE [b EXCEPT !.en_passant_square = 0]

update_en_passant_flag(b, m) ==
  LET n_ranks_moved == m.to_square - m.from_square
      abs == IF n_ranks_moved < 0 THEN 0 - n_ranks_moved ELSE n_ranks_moved
      signum == IF n_ranks_moved < 0 THEN 0 - 1 ELSE IF n_ranks_moved > 0 THEN 1 ELSE 0
  IN  IF m.piece = Pawn /\ m.move_type = Quiet /\ abs = BOARD_WIDTH * 2
      THEN [b EXCEPT !.en_passant_square = m.to_square - signum * BOARD_WIDTH]
      ELSE [b EXCEPT !.en_passant_square = 0]

\* a rook move from either corner clears both rights of the mover
update_castling_rights_rook_clears_both(b, m) ==
  CASE m.piece = King ->
         [b EXCEPT !.castling_right_long[m.side] = FALSE,
                   !.castling_right_short[m.side] = FALSE]
    [] m.piece = Rook ->
         IF m.from_square \in {ROOK_SHORT_SQUARES[m.side], ROOK_LONG_SQUARES[m.side]}
         THEN [b EXCEPT !.castling_right_long[m.side] = FALSE,
                        !.castling_right_short[m.side] = FALSE]
         ELSE b
    [] OTHER -> b

update_castling_rights(b, m) ==
  CASE m.piece = King ->
         [b EXCEPT !.castling_right_long[m.side] = FALSE,
                   !.castling_right_short[m.side] = FALSE]
    [] m.piece = Rook ->
         IF b.castling_right_short[m.side] /\ m.from_square = ROOK_SHORT_SQUARES[m.side]
         THEN [b EXCEPT !.castling_right_short[m.side] = FALSE]
         ELSE IF b.castling_right_long[m.side] /\ m.from_square = ROOK_LONG_SQUARES[m.side]
              THEN [b EXCEPT !.castling_right_long[m.side] = FALSE]
              ELSE b
    [] OTHER -> b

\* the square of the pawn an en-passant capture removes
enemy_pawn_square(m) == m.to_square + (m.side * 2 - 1) * BOARD_WIDTH

Board_make_move(b0, m) ==
  LET b == update_castling_rights(update_en_passant_flag(b0, m), m)
      ps == b.pieces
  IN  CASE m.move_type.tag = "CastleShort" ->
             LET k == [ps EXCEPT ![King][m.side] = shr(@, 2)]
             IN  [b EXCEPT !.pieces =
                    IF m.side = White
                    THEN [k EXCEPT ![Rook][m.side] = (@ \ {0}) \cup {2}]
                    ELSE [k EXCEPT ![Rook][m.side] =
                            (@ \ {BOARD_WIDTH * (BOARD_HEIGHT - 1)})
                              \cup {BOARD_WIDTH * (BOARD_HEIGHT - 1) + 2}]]
        [] m.move_type.tag = "CastleLong" ->
             LET k == [ps EXCEPT ![King][m.side] = shl(@, 2)]
             IN  [b EXCEPT !.pieces =
                    IF m.side = White
                    THEN [k EXCEPT ![Rook][m.side] =
                            (@ \ {BOARD_WIDTH - 1}) \cup {BOARD_WIDTH - 1 - 3}]
                    ELSE [k EXCEPT ![Rook][m.side] =
                            (@ \ {BOARD_WIDTH * BOARD_HEIGHT - 1})
                              \cup {BOARD_WIDTH * BOARD_HEIGHT - 1 - 3}]]
        [] OTHER ->
             LET p1 == [ps EXCEPT ![m.piece][m.side] = @ \ {m.from_square}]
                 new_square_piece_type ==
                   IF is_promotion(m) THEN m.move_type.promo ELSE m.piece
                 p2 == [p1 EXCEPT ![new_square_piece_type][m.side] = @ \cup {m.to_square}]
                 p3 == CASE m.move_type.tag \in {"Capture", "CapturePromotion"} ->
                              [p2 EXCEPT ![m.move_type.victim][opposite(m.side)] =
                                 @ \ {m.to_square}]
                         [] m.move_type.tag = "EnPassantCapture" ->
                              [p2 EXCEPT ![m.move_type.victim][opposite(m.side)] =
                                 @ \ {enemy_pawn_square(m)}]
                         [] OTHER -> p2
             IN  [b EXCEPT !.pieces = p3]

Board_undo_move(b0, m, castling_right_long, castling_right_short) ==
  LET b == [b0 EXCEPT !.castling_right_short = castling_right_short,
                      !.castling_right_long = castling_right_long,
                      !.side_to_move = opposite(@),
                      !.en_passant_square = 0]
      ps == b.pieces
  IN  CASE m.move_type.tag = "CastleShort" ->
             LET k == [ps EXCEPT ![King][m.side] = shl(@, 2)]
             IN  [b EXCEPT !.pieces =
                    IF m.side = White
                    THEN [k EXCEPT ![Rook][m.side] = (@ \ {2}) \cup {0}]
                    ELSE [k EXCEPT ![Rook][m.side] =
                            (@ \ {BOARD_WIDTH * (BOARD_HEIGHT - 1) + 2})
                              \cup {BOARD_WIDTH * (BOARD_HEIGHT - 1)}]]
        [] m.move_type.tag = "CastleLong" ->
             LET k == [ps EXCEPT ![King][m.side] = shr(@, 2)]
             IN  [b EXCEPT !.pieces =
                    IF m.side = White
                    THEN [k EXCEPT ![Rook][m.side] =
                            (@ \ {BOARD_WIDTH - 1 - 3}) \cup {BOARD_WIDTH - 1}]
                    ELSE [k EXCEPT ![Rook][m.side] =
                            (@ \ {BOARD_WIDTH * BOARD_HEIGHT - 1 - 3})
                              \cup {BOARD_WIDTH * BOARD_HEIGHT - 1}]]
        [] OTHER ->
             LET p1 == IF is_promotion(m)
                       THEN [ps EXCEPT ![m.move_type.promo][m.side] = @ \ {m.to_square}]
                       ELSE [ps EXCEPT ![m.piece][m.side] = @ \ {m.to_square}]
                 p2 == [p1 EXCEPT ![m.piece][m.side] = @ \cup {m.from_square}]
             IN  CASE m.move_type.tag \in {"Capture", "CapturePromotion"} ->
                        [b EXCEPT !.pieces =
                           [p2 EXCEPT ![m.move_type.victim][opposite(m.side)] =
                              @ \cup {m.to_square}]]
                   [] m.move_type.tag = "EnPassantCapture" ->
                        [b EXCEPT !.pieces =
                           [p2 EXCEPT ![m.move_type.victim][opposite(m.side)] =
                              @ \cup {enemy_pawn_square(m)}],
                                  !.en_passant_square = m.to_square]
                   [] OTHER -> [b EXCEPT !.pieces = p2]

occupation_board(b, side) == UNION {b.pieces[piece][side] : piece \in Piece_VALUES}

occupation_boards(b) == [side \in Side_VALUES |-> occupation_board(b, side)]

\* ------------------------------------------------------ ZobristHasher
\* ZobristHasher::new draws every table entry at random; the entries are
\* modelled as distinct atoms and a u128 value as the set of atoms whose XOR
\* it is (so ^ is symmetric difference and 0 is the empty set).  Two values
\* are equal exactly when they are equal for every choice of the entries.
rands(side, piece, square) == side * (6 * N_SQUARES) + piece * N_SQUARES + square

black_to_move_rand == 2 * 6 * N_SQUARES

castling_right_long_rands(i) == black_to_move_rand + 1 + i

castling_right_short_rands(i) == black_to_move_rand + 5 + i

ep_file_rands(i) == black_to_move_rand + 9 + i

xor(a, b) == (a \ b) \cup (b \ a)

bool_as_usize(x) == IF x THEN 1 ELSE 0

\* the hash without the two castling entries
ZobristHasher_hash_without_castling(b) ==
  LET h_side == IF b.side_to_move = Black THEN {black_to_move_rand} ELSE {}
      h_pieces ==
        xor(h_side,
            UNION {{rands(side, piece, square) : square \in b.pieces[piece][side]} :
                     side \in Side_VALUES, piece \in Piece_VALUES})
  IN  IF b.en_passant_square # 0
      THEN xor(h_pieces, {ep_file_rands(file(b.en_passant_square))})
      ELSE h_pieces

ZobristHasher_hash(b) ==
  LET h_side == IF b.side_to_move = Black THEN {black_to_move_rand} ELSE {}
      h_pieces ==
        xor(h_side,
            UNION {{rands(side, piece, square) : square \in b.pieces[piece][side]} :
                     side \in Side_VALUES, piece \in Piece_VALUES})
      long_castle_rights ==
        bool_as_usize(b.castling_right_long[0]) + bool_as_usize(b.castling_right_long[1])
      short_castle_rights ==
        bool_as_usize(b.castling_right_short[0]) + bool_as_usize(b.castling_right_short[1])
      h_long == xor(h_pieces, {castling_right_long_rands(long_castle_rights)})
      h_short == xor(h_long, {castling_right_short_rands(short_castle_rights)})
  IN  IF b.en_passant_square # 0
      THEN xor(h_short, {ep_file_rands(file(b.en_passant_square))})
      ELSE h_short

\* ---------------------------------------------------------- GameState
\* GameState::new and GameState::from_board build the same fields around
\* the board they are given.
update_occupation_boards(g) ==
  Only({[g EXCEPT !.occupation_boards = occ,
                  !.comp_occupation_board = occ[White] \cup occ[Black]]
        : occ \in {occupation_boards(g.board)}})

GameState_from_board(board) ==
  update_occupation_boards(
    [board |-> board,
     occupation_boards |-> [side \in Side_VALUES |-> {}],
     comp_occupation_board |-> {},
     half_move_number |-> 1,
     move_number |-> 1,
     half_move_of_last_capture |-> 0,
     threefold_repetition |-> FALSE,
     pos_hash |-> {},
     position_occurance_counter |-> <<>>])

GameState_new == GameState_from_board(Board_default)

\* position_occurance_counter.insert(key, 1): the count never grows
counter_increment_insert_only(counter, key) ==
  IF key \in DOMAIN counter
  THEN [counter EXCEPT ![key] = 1]
  ELSE counter @@ (key :> 1)

\* position_occurance_counter.entry(key).and_modify(|c| *c += 1).or_insert(1)
counter_increment(counter, key) ==
  IF key \in DOMAIN counter
  THEN [counter EXCEPT ![key] = @ + 1]
  ELSE counter @@ (key :> 1)

\* position_occurance_counter.entry(key).and_modify(|c| *c -= 1): an absent
\* key stays absent.
counter_decrement(counter, key) ==
  IF key \in DOMAIN counter
  THEN [counter EXCEPT ![key] = @ - 1]
  ELSE counter

\* board_with_move that leaves side_to_move as it was
board_with_move_same_side(b, m) == Board_make_move(b, m)

\* the board update_board_with_move leaves: Board::make_move, then the
\* other side to move
board_with_move(b, m) == [Board_make_move(b, m) EXCEPT !.side_to_move = opposite(@)]

update_board_with_move(g, m) ==
  LET hmn == g.half_move_number + 1
      mn == IF hmn % 2 # 0 THEN g.move_number + 1 ELSE g.move_number
      hmolc == IF is_capture(m) THEN hmn ELSE g.half_move_of_last_capture
  IN  Only({
        Only({
          LET counter == counter_increment(g.position_occurance_counter, h)
          IN  update_occupation_boards(
                [g EXCEPT !.board = b2,
                          !.half_move_number = hmn,
                          !.move_number = mn,
                          !.half_move_of_last_capture = hmolc,
                          !.threefold_repetition = IF counter[h] = 3 THEN TRUE ELSE @,
                          !.pos_hash = h,
                          !.position_occurance_counter = counter])
          : h \in {ZobristHasher_hash(b2)}})
        : b2 \in {board_with_move(g.board, m)}})

update_board_undo_move(g, m, castling_right_long, castling_right_short, half_move_of_last_capture) ==
  LET hmn == g.half_move_number - 1
      mn == IF hmn % 2 = 0 THEN g.move_number - 1 ELSE g.move_number
  IN  Only({
        update_occupation_boards(
          [g EXCEPT !.board = b1,
                    !.half_move_number = hmn,
                    !.move_number = mn,
                    !.half_move_of_last_capture = half_move_of_last_capture,
                    !.threefold_repetition = FALSE,
                    !.pos_hash = ZobristHasher_hash(b1),
                    !.position_occurance_counter = counter_decrement(@, g.pos_hash)])
        : b1 \in {Board_undo_move(g.board, m, castling_right_long, castling_right_short)}})

\* ------------------------------------------------- legal move generator
slider_moves(g, piece, square) ==
  LET occ == g.comp_occupation_board
  IN  CASE piece = Rook ->
             get_rook_moves(square, occ \cap get_piece_blocker_mask(Rook, square))
        [] piece = Bishop ->
             get_bishop_moves(square, occ \cap get_piece_blocker_mask(Bishop, square))
        [] piece = Queen ->
             get_rook_moves(square, occ \cap get_piece_blocker_mask(Rook, square))
               \cup get_bishop_moves(square, occ \cap get_piece_blocker_mask(Bishop, square))

\* get_checking_ray with every square of the board on the ray
get_checking_ray_whole_board(g, checker_square) ==
  LET king_square == trailing_zeros(g.board.pieces[King][g.board.side_to_move])
      king_file == file(king_square)
      king_rank == rank(king_square)
      checker_file == file(checker_square)
      checker_rank == rank(checker_square)
      direction ==
        IF king_file = checker_file
        THEN IF king_rank < checker_rank THEN South ELSE North
        ELSE IF king_file > checker_file
             THEN IF king_rank = checker_rank THEN West
                  ELSE IF king_rank < checker_rank THEN SouthWest ELSE NorthWest
             ELSE IF king_rank = checker_rank THEN East
                  ELSE IF king_rank < checker_rank THEN SouthEast ELSE NorthEast
  IN  [ray |-> ALL_ONES, direction |-> direction]

\* the ray from the checker through the king of the side to move to the edge
get_checking_ray(g, checker_square) ==
  LET king_square == trailing_zeros(g.board.pieces[King][g.board.side_to_move])
      king_file == file(king_square)
      king_rank == rank(king_square)
      checker_file == file(checker_square)
      checker_rank == rank(checker_square)
      direction ==
        IF king_file = checker_file
        THEN IF king_rank < checker_rank THEN South ELSE North
        ELSE IF king_file > checker_file
             THEN IF king_rank = checker_rank THEN West
                  ELSE IF king_rank < checker_rank THEN SouthWest ELSE NorthWest
             ELSE IF king_rank = checker_rank THEN East
                  ELSE IF king_rank < checker_rank THEN SouthEast ELSE NorthEast
  IN  [ray |-> rays[direction][checker_square], direction |-> direction]

\* The pin enemy_attacks_piece_pins writes for the slider on `square`, as the
\* set of its (pinned_square, mask) entries (empty or one).
enemy_attacks_piece_pins(g, piece, square, king_pos) ==
  LET comp_ray == comp_rays[piece][square]
      king_aligned == comp_ray \cap king_pos
  IN  IF king_aligned # {}
      THEN LET cr == get_checking_ray(g, square)
               pin_ray == cr.ray
               king_square == trailing_zeros(king_pos)
               enemy_piece_king_ray == pin_ray \ rays[cr.direction][king_square]
               own_blocking_pieces ==
                 enemy_piece_king_ray \cap g.occupation_boards[opposite(g.board.side_to_move)]
               enemy_blocking_pieces ==
                 (enemy_piece_king_ray \cap g.occupation_boards[g.board.side_to_move]) \ king_pos
           IN  IF own_blocking_pieces = {} /\ Cardinality(enemy_blocking_pieces) = 1
               THEN {[pinned_square |-> trailing_zeros(enemy_blocking_pieces),
                      mask |-> pin_ray \cup {square},
                      order |-> piece * N_SQUARES + square]}
               ELSE {}
      ELSE {}

\* enemy_attacks: attacks_bb, the checkers (piece, square, moves_bb) and the
\* pin entries; pin_masks[s] is ALL_ONES where no entry names s.
enemy_attacks(g) ==
  LET king_pos == g.board.pieces[King][g.board.side_to_move]
      opposite_side == opposite(g.board.side_to_move)
  IN  Only({
        Only({
          [attacks_bb |-> UNION {a.moves_bb : a \in attackers},
           checkers |-> checkers,
           pins |-> UNION {enemy_attacks_piece_pins(g, a.piece, a.square, king_pos) :
                             a \in {x \in attackers \ checkers : is_slider(x.piece)}}]
          : checkers \in {{a \in attackers : a.moves_bb \cap king_pos # {}}}})
        : attackers \in {
            UNION {{[piece |-> piece, square |-> square,
                     moves_bb |->
                       IF is_slider(piece) THEN slider_moves(g, piece, square)
                       ELSE IF piece = Pawn THEN pawn_capture_moves[opposite_side][square]
                       ELSE pl_moves(piece, opposite_side, square)] :
                      square \in g.board.pieces[piece][opposite_side]} : piece \in Piece_VALUES}}})

\* pin_masks with no entry written: no piece is pinned
pin_mask_unpinned(pins, square) == ALL_ONES

\* pin_masks[square]: the loop of enemy_attacks writes the entries in piece
\* and square order, so the last writer of a square wins.
pin_mask(pins, square) ==
  LET mine == {p \in pins : p.pinned_square = square}
  IN  IF mine = {} THEN ALL_ONES
      ELSE (CHOOSE p \in mine : \A q \in mine : q.order <= p.order).mask

pawn_moves(g, square, moves_bb) ==
  LET side == g.board.side_to_move
      pawn_blockers == moves_bb \cap g.comp_occupation_board
      unblocked ==
        IF pawn_blockers # {}
        THEN LET nearest_blocker_square ==
                   IF side = White THEN trailing_zeros(pawn_blockers)
                   ELSE highest_bit(pawn_blockers)
             IN  (moves_bb \ pl_moves(Pawn, side, nearest_blocker_square))
                   \ {nearest_blocker_square}
        ELSE moves_bb
      capture_squares == pawn_capture_moves[side][square]
  IN  unblocked \cup
        (capture_squares \cap
           (g.occupation_boards[opposite(side)] \cup {g.board.en_passant_square}))

remove_friendly_moves(g, moves_bb) == moves_bb \ g.occupation_boards[g.board.side_to_move]

\* generate_promotion_moves that never promotes to a knight
generate_promotion_moves_without_knight(g, piece, square, target_square, capture, captured_piece) ==
  {Move(square, target_square,
        IF capture THEN CapturePromotion(captured_piece, promotion_piece)
        ELSE Promotion(promotion_piece),
        piece, g.board.side_to_move) : promotion_piece \in PROMOTION_PIECES \ {Knight}}

generate_promotion_moves(g, piece, square, target_square, capture, captured_piece) ==
  {Move(square, target_square,
        IF capture THEN CapturePromotion(captured_piece, promotion_piece)
        ELSE Promotion(promotion_piece),
        piece, g.board.side_to_move) : promotion_piece \in PROMOTION_PIECES}

generate_moves_from_bb(g, piece, square, moves_bb) ==
  UNION {
    LET capture == target_square \in g.comp_occupation_board
        hit == {p \in ALL_BUT_KING : target_square \in g.board.pieces[p][opposite(g.board.side_to_move)]}
        captured_piece ==
          IF capture /\ hit # {} THEN trailing_zeros(hit) ELSE Pawn
        is_pawn == piece = Pawn
        pawn_promotion_possible ==
          target_square >= BOARD_WIDTH * (BOARD_HEIGHT - 1)
            \/ target_square <= BOARD_WIDTH - 1
    IN  IF is_pawn /\ pawn_promotion_possible
        THEN generate_promotion_moves(g, piece, square, target_square, capture, captured_piece)
        ELSE {Move(square, target_square,
                   IF is_pawn /\ target_square = g.board.en_passant_square
                   THEN EnPassantCapture(captured_piece)
                   ELSE IF capture THEN Capture(captured_piece) ELSE Quiet,
                   piece, g.board.side_to_move)}
    : target_square \in moves_bb}

\* get_legal_moves_for_piece_with_mask without `moves_bb &= !enemy_attack_bb`
\* for the king
get_legal_moves_for_piece_with_mask_king_into_check(g, piece, enemy_attack_bb, pins, mask) ==
  UNION {
    Only({
      LET special == IF piece = Pawn THEN pawn_moves(g, square, base)
                     ELSE IF piece = King THEN base
                     ELSE base
          masked == special \cap (mask \cap pin_mask(pins, square))
      IN  generate_moves_from_bb(g, piece, square, remove_friendly_moves(g, masked))
      : base \in {IF is_slider(piece) THEN slider_moves(g, piece, square)
                  ELSE pl_moves(piece, g.board.side_to_move, square)}})
    : square \in g.board.pieces[piece][g.board.side_to_move]}

\* the moves of every piece of one kind, restricted to mask and to the pins
get_legal_moves_for_piece_with_mask(g, piece, enemy_attack_bb, pins, mask) ==
  UNION {
    Only({
      LET special == IF piece = Pawn THEN pawn_moves(g, square, base)
                     ELSE IF piece = King THEN base \ enemy_attack_bb
                     ELSE base
          masked == special \cap (mask \cap pin_mask(pins, square))
      IN  generate_moves_from_bb(g, piece, square, remove_friendly_moves(g, masked))
      : base \in {IF is_slider(piece) THEN slider_moves(g, piece, square)
                  ELSE pl_moves(piece, g.board.side_to_move, square)}})
    : square \in g.board.pieces[piece][g.board.side_to_move]}

get_legal_moves_for_piece(g, piece, enemy_attack_bb, pins) ==
  get_legal_moves_for_piece_with_mask(g, piece, enemy_attack_bb, pins, ALL_ONES)

SHORT_CASTLE_MASKS == [side \in Side_VALUES |-> IF side = White THEN {1, 2} ELSE {57, 58}]

LONG_CASTLE_MASKS == [side \in Side_VALUES |-> IF side = White THEN {4, 5, 6} ELSE {60, 61, 62}]

KING_STARTING_POS == [side \in Side_VALUES |-> IF side = White THEN {3} ELSE {BOARD_HEIGHT * (BOARD_HEIGHT - 1) + 3}]

get_castling_moves(g, enemy_attack_bb) ==
  LET side == g.board.side_to_move
      blocked == enemy_attack_bb \cup g.occupation_boards[side]
  IN  IF g.board.pieces[King][side] \cap KING_STARTING_POS[side] = {}
      THEN {}
      ELSE (IF g.board.castling_right_short[side]
               /\ SHORT_CASTLE_MASKS[side] \cap blocked = {}
               /\ ROOK_SHORT_SQUARES[side] \in g.board.pieces[Rook][side]
            THEN {Move(0, 0, CastleShort, King, side)} ELSE {})
           \cup
           (IF g.board.castling_right_long[side]
               /\ LONG_CASTLE_MASKS[side] \cap blocked = {}
               /\ ROOK_LONG_SQUARES[side] \in g.board.pieces[Rook][side]
            THEN {Move(0, 0, CastleLong, King, side)} ELSE {})

\* get_legal_moves with the castling moves also added under a single check
get_legal_moves_castles_in_check(g) ==
  Only({
  LET enemy_attack_bb == ea.attacks_bb
      n_checkers == Cardinality(ea.checkers)
      in_check == n_checkers > 0
      move_list ==
        IF ~in_check
        THEN UNION {get_legal_moves_for_piece(g, piece, enemy_attack_bb, ea.pins) :
                      piece \in Piece_VALUES}
               \cup get_castling_moves(g, enemy_attack_bb)
        ELSE IF n_checkers = 1
        THEN LET c == CHOOSE x \in ea.checkers : TRUE
                 checking_ray == get_checking_ray(g, c.square).ray
                 king_ray_mask ==
                   IF is_slider(c.piece)
                   THEN (ALL_ONES \ checking_ray) \cup c.moves_bb
                   ELSE ALL_ONES
                 move_mask ==
                   IF is_slider(c.piece)
                   THEN (c.moves_bb \cap checking_ray) \cup {c.square}
                   ELSE {c.square}
             IN  get_legal_moves_for_piece_with_mask(g, King, enemy_attack_bb, ea.pins,
                                                     king_ray_mask)
                   \cup UNION {get_legal_moves_for_piece_with_mask(
                                 g, piece, enemy_attack_bb, ea.pins, move_mask) :
                               piece \in ALL_BUT_KING}
                   \cup get_castling_moves(g, enemy_attack_bb)
        ELSE LET covered ==
                   UNION {get_checking_ray(g, c.square).ray \cup c.moves_bb :
                            c \in {x \in ea.checkers : is_slider(x.piece)}}
             IN  get_legal_moves_for_piece_with_mask(g, King, enemy_attack_bb, ea.pins,
                                                     ALL_ONES \ covered)
  IN  [moves |-> move_list, in_check |-> in_check]
  : ea \in {enemy_attacks(g)}})

\* get_legal_moves: the move list (as the set of its elements; no move is
\* pushed twice) and the in_check flag.
get_legal_moves(g) ==
  Only({
  LET enemy_attack_bb == ea.attacks_bb
      n_checkers == Cardinality(ea.checkers)
      in_check == n_checkers > 0
      move_list ==
        IF ~in_check
        THEN UNION {get_legal_moves_for_piece(g, piece, enemy_attack_bb, ea.pins) :
                      piece \in Piece_VALUES}
               \cup get_castling_moves(g, enemy_attack_bb)
        ELSE IF n_checkers = 1
        THEN LET c == CHOOSE x \in ea.checkers : TRUE
                 checking_ray == get_checking_ray(g, c.square).ray
                 king_ray_mask ==
                   IF is_slider(c.piece)
                   THEN (ALL_ONES \ checking_ray) \cup c.moves_bb
                   ELSE ALL_ONES
                 move_mask ==
                   IF is_slider(c.piece)
                   THEN (c.moves_bb \cap checking_ray) \cup {c.square}
                   ELSE {c.square}
             IN  get_legal_moves_for_piece_with_mask(g, King, enemy_attack_bb, ea.pins,
                                                     king_ray_mask)
                   \cup UNION {get_legal_moves_for_piece_with_mask(
                                 g, piece, enemy_attack_bb, ea.pins, move_mask) :
                               piece \in ALL_BUT_KING}
        ELSE LET covered ==
                   UNION {get_checking_ray(g, c.square).ray \cup c.moves_bb :
                            c \in {x \in ea.checkers : is_slider(x.piece)}}
             IN  get_legal_moves_for_piece_with_mask(g, King, enemy_attack_bb, ea.pins,
                                                     ALL_ONES \ covered)
  IN  [moves |-> move_list, in_check |-> in_check]
  : ea \in {enemy_attacks(g)}})

\* MoveResult / DrawReason; "None" is Option::None.
get_move_result(g, legal_moves_opposite, in_check) ==
  LET has_legal_moves == Cardinality(legal_moves_opposite) # 0
      moves_since_last_capture ==
        (g.half_move_number - g.half_move_of_last_capture) \div 2
  IN  IF moves_since_last_capture = 50 THEN "Draw(FiftyMoveRule)"
      ELSE IF g.threefold_repetition THEN "Draw(ThreeFoldRepetition)"
      ELSE IF in_check
           THEN IF ~has_legal_moves THEN "Checkmate" ELSE "Check"
           ELSE IF ~has_legal_moves THEN "Draw(Stalemate)" ELSE "None"

\* GameState::make_move: the move result and the reply list after m
GameState_make_move(g, m) ==
  LET g1 == update_board_with_move(g, m)
      lm == get_legal_moves(g1)
  IN  [game |-> g1,
       move_result |-> get_move_result(g1, lm.moves, lm.in_check),
       legal_moves |-> lm.moves]

\* ------------------------------------------------------------ perft
\* number of move sequences of length depth that get_legal_moves and
\* update_board_with_move produce from game state g
RECURSIVE Perft(_, _)
Perft(g, depth) ==
  IF depth = 0 THEN 1
  ELSE LET moves == get_legal_moves(g).moves
       IN  IF depth = 1 THEN Cardinality(moves)
           ELSE SumOver([m \in moves |->
                           Perft(update_board_with_move(g, m), depth - 1)])

\* ------------------------------------------------------------- games
\* Boards handed to GameState::from_board.
NoRights == [side \in Side_VALUES |-> FALSE]

PlaceBoard(placed, side_to_move, ep, crl, crs) ==
  [pieces |-> [piece \in Piece_VALUES |-> [side \in Side_VALUES |->
                 {sq \in DOMAIN placed : placed[sq] = <<piece, side>>}]],
   side_to_move |-> side_to_move,
   en_passant_square |-> ep,
   castling_right_long |-> crl,
   castling_right_short |-> crs]

\* Ke1 Ra1 Rh1 against Ke8 Ra8 Rh8, all castling rights held
Board_castles ==
  PlaceBoard((3 :> <<King, White>>) @@ (0 :> <<Rook, White>>) @@ (7 :> <<Rook, White>>)
             @@ (59 :> <<King, Black>>) @@ (56 :> <<Rook, Black>>) @@ (63 :> <<Rook, Black>>),
             White, 0, [side \in Side_VALUES |-> TRUE], [side \in Side_VALUES |-> TRUE])

\* Ke1 Ra1 against Ke8 Rb8: b1 is attacked, c1 and d1 are not
Board_long_castle ==
  PlaceBoard((3 :> <<King, White>>) @@ (7 :> <<Rook, White>>)
             @@ (59 :> <<King, Black>>) @@ (62 :> <<Rook, Black>>),
             White, 0, [side \in Side_VALUES |-> side = White], NoRights)

\* Kh1 and pawn a2 against Kh8 and pawn b4
Board_pawns ==
  PlaceBoard((0 :> <<King, White>>) @@ (15 :> <<Pawn, White>>)
             @@ (56 :> <<King, Black>>) @@ (30 :> <<Pawn, Black>>),
             White, 0, NoRights, NoRights)

\* Ke1 Rh1 against Ke8 and a knight on g1: f1 and g1 are not attacked
\* white Ke1 with a rook on e2 in front of a black rook on e8, a knight on f2
\* in front of a black bishop on h4, and a knight on d1 that shares the first
\* rank with a black knight on c1 in front of a black rook on a1
Board_pins ==
  PlaceBoard((3 :> <<King, White>>) @@ (11 :> <<Rook, White>>) @@ (10 :> <<Knight, White>>)
             @@ (4 :> <<Knight, White>>) @@ (63 :> <<King, Black>>) @@ (59 :> <<Rook, Black>>)
             @@ (24 :> <<Bishop, Black>>) @@ (5 :> <<Knight, Black>>) @@ (7 :> <<Rook, Black>>),
             White, 0, NoRights, NoRights)

\* black to move: the knight on e6 screens the rook on e8 from the white king
\* on e2; white has a rook on b3 and a bishop on h5
Board_discovered ==
  PlaceBoard((11 :> <<King, White>>) @@ (22 :> <<Rook, White>>) @@ (32 :> <<Bishop, White>>)
             @@ (63 :> <<King, Black>>) @@ (59 :> <<Rook, Black>>) @@ (43 :> <<Knight, Black>>),
             Black, 0, NoRights, NoRights)

Board_castle_through ==
  PlaceBoard((3 :> <<King, White>>) @@ (0 :> <<Rook, White>>)
             @@ (59 :> <<King, Black>>) @@ (1 :> <<Knight, Black>>),
             White, 0, NoRights, [side \in Side_VALUES |-> side = White])

\* Ka5 and pawn b5 against pawn c5 (just pushed from c7), Rh5 and Kh8
Board_ep_rank ==
  PlaceBoard((39 :> <<King, White>>) @@ (38 :> <<Pawn, White>>)
             @@ (37 :> <<Pawn, Black>>) @@ (32 :> <<Rook, Black>>)
             @@ (56 :> <<King, Black>>),
             White, 45, NoRights, NoRights)

\* Ke4 and pawn c5 against pawn d7 and Kh8, Black to move
Board_ep_check ==
  PlaceBoard((27 :> <<King, White>>) @@ (37 :> <<Pawn, White>>)
             @@ (52 :> <<Pawn, Black>>) @@ (56 :> <<King, Black>>),
             Black, 0, NoRights, NoRights)

\* Ke1 and pawn b7 against Ke8, Ra8 and Nc8
Board_promotion ==
  PlaceBoard((3 :> <<King, White>>) @@ (54 :> <<Pawn, White>>)
             @@ (59 :> <<King, Black>>) @@ (63 :> <<Rook, Black>>)
             @@ (61 :> <<Knight, Black>>),
             White, 0, NoRights, NoRights)

\* Ka1 and Nf1 against Kh8 and pawn g2, Black to move; h1 is empty
Board_pawn_g2 ==
  PlaceBoard((7 :> <<King, White>>) @@ (2 :> <<Knight, White>>)
             @@ (56 :> <<King, Black>>) @@ (9 :> <<Pawn, Black>>),
             Black, 0, NoRights, NoRights)

\* Moves of the scripted lines (all from the standard start).
Nf3 == Move(1, 18, Quiet, Knight, White)
Ng1 == Move(18, 1, Quiet, Knight, White)
Nc6 == Move(62, 45, Quiet, Knight, Black)
Nb8 == Move(45, 62, Quiet, Knight, Black)
KnightCycle == <<Nf3, Nc6, Ng1, Nb8>>

RECURSIVE Repeat(_, _)
Repeat(cycle, n) == IF n = 0 THEN <<>> ELSE cycle \o Repeat(cycle, n - 1)

\* 1.f3 e5 2.g4 Qh4#
FoolsMate ==
  <<Move(10, 18, Quiet, Pawn, White), Move(51, 35, Quiet, Pawn, Black),
    Move(9, 25, Quiet, Pawn, White), Move(60, 24, Quiet, Queen, Black)>>

\* 1.e4 d5 2.exd5 then knight moves out and back
CaptureThenCycle ==
  <<Move(11, 27, Quiet, Pawn, White), Move(52, 36, Quiet, Pawn, Black),
    Move(27, 36, Capture(Pawn), Pawn, White)>>
    \o Repeat(<<Nc6, Nf3, Nb8, Ng1>>, LongCycles)

\* 1.g3 Nc6 2.Bh3 Nd4 3.a3 Nxe2 4.a4 Nxg1 5.O-O
CastleOntoKnight ==
  <<Move(9, 17, Quiet, Pawn, White), Nc6,
    Move(2, 16, Quiet, Bishop, White), Move(45, 28, Quiet, Knight, Black),
    Move(15, 23, Quiet, Pawn, White), Move(28, 11, Capture(Pawn), Knight, Black),
    Move(23, 31, Quiet, Pawn, White), Move(11, 1, Capture(Knight), Knight, Black),
    Move(0, 0, CastleShort, King, White)>>

\* 1.g4 b6 2.a4 Bb7 3.Ra3 Bxh1 4.h4 Bb7 5.Rah3 Nc6 6.Nf3 Nb8 7.Bg2 Nc6
\* 8.Rh1 Nb8: the queen's rook stands on h1, the king has not moved
RookToOtherCorner ==
  <<Move(9, 25, Quiet, Pawn, White), Move(54, 46, Quiet, Pawn, Black),
    Move(15, 31, Quiet, Pawn, White), Move(61, 54, Quiet, Bishop, Black),
    Move(7, 23, Quiet, Rook, White), Move(54, 0, Capture(Rook), Bishop, Black),
    Move(8, 24, Quiet, Pawn, White), Move(0, 54, Quiet, Bishop, Black),
    Move(23, 16, Quiet, Rook, White), Nc6,
    Nf3, Nb8,
    Move(2, 9, Quiet, Bishop, White), Nc6,
    Move(16, 0, Quiet, Rook, White), Nb8>>

\* on Board_castles: the queen's rooks step out and back, then the king's
\* rooks three times; the placement of the start comes back after every
\* four plies, with fewer castling rights after the first two rounds
RookShuffles ==
  <<Move(7, 15, Quiet, Rook, White), Move(63, 55, Quiet, Rook, Black),
    Move(15, 7, Quiet, Rook, White), Move(55, 63, Quiet, Rook, Black)>>
    \o Repeat(<<Move(0, 8, Quiet, Rook, White), Move(56, 48, Quiet, Rook, Black),
                Move(8, 0, Quiet, Rook, White), Move(48, 56, Quiet, Rook, Black)>>, 3)

\* A game: the board it is constructed on, the line its caller plays first,
\* whether the caller goes on with moves of its choice after the line, and
\* whether those are moves of a search (made and undone) or of the driver.
Game(board, line, tail, searching) ==
  [board |-> board, line |-> line, tail |-> tail, searching |-> searching]

Games ==
  {Game(Board_default, <<>>, TRUE, FALSE),
   Game(Board_default, Repeat(KnightCycle, 3) \o FoolsMate, FALSE, FALSE),
   Game(Board_default, Repeat(KnightCycle, LongCycles), FALSE, FALSE),
   Game(Board_default, CaptureThenCycle, FALSE, FALSE),
   Game(Board_castles, <<>>, TRUE, FALSE),
   Game(Board_long_castle, <<>>, TRUE, FALSE),
   Game(Board_pawns, <<>>, TRUE, TRUE),
   Game(Board_pawns, <<Move(15, 31, Quiet, Pawn, White)>>, TRUE, TRUE),
   Game(Board_default, CastleOntoKnight, FALSE, FALSE),
   Game(Board_default, RookToOtherCorner, FALSE, FALSE),
   Game(Board_castles, RookShuffles, FALSE, FALSE),
   Game(Board_castle_through, <<>>, TRUE, FALSE),
   Game(Board_ep_rank, <<>>, TRUE, FALSE),
   Game(Board_ep_check, <<>>, TRUE, FALSE),
   Game(Board_promotion, <<>>, TRUE, FALSE),
   Game(Board_pawn_g2, <<>>, TRUE, FALSE),
   Game(Board_pins, <<>>, TRUE, FALSE),
   Game(Board_discovered, <<>>, TRUE, FALSE)}

\* ------------------------------------------------------ state machine
VARIABLES game, stack, history, seen, undos, plan, last_op, magic_bb, ray_tables, search, pool

vars == <<game, stack, history, seen, undos, plan, last_op, magic_bb, ray_tables, search, pool>>

game_vars == <<game, stack, history, seen, undos, plan, last_op>>

table_vars == <<magic_bb, ray_tables>>

search_vars == <<search, pool>>

\* game    : the GameState
\* stack   : per made move, the move and the scalars its caller saved
\* history : the boards of the game so far (construction, then every make)
\* seen    : every (board, pos_hash) the GameState has shown
\* undos   : number of undos performed
\* plan    : the Game being played
\* last_op : the GameState operation that produced the state
\* magic_bb   : the MagicBitboard slice that was built, if any
\* ray_tables : the ray attacks computed for a blocker set, if any
\* search     : the running minimax / qsearch call, if any
\* pool       : the worker pool of find_best_legal_move, if any

Observed(g) == [board |-> g.board, pos_hash |-> g.pos_hash]

\* nothing outside the GameState has been built or started
NotBuilt == [built_by |-> "none"]

Idle == [state |-> "idle"]

\* GameState::from_board for one of the given games
GameInit(games) ==
  /\ plan \in games
  /\ game = GameState_from_board(plan.board)
  /\ stack = <<>>
  /\ history = <<plan.board>>
  /\ seen = {Observed(game)}
  /\ undos = 0
  /\ last_op = "from_board"

Init ==
  /\ GameInit(Games)
  /\ magic_bb = NotBuilt
  /\ ray_tables = NotBuilt
  /\ search = Idle
  /\ pool = Idle

LegalMoves == get_legal_moves(game)

Saved(g, m) ==
  [m |-> m,
   castling_right_long |-> g.board.castling_right_long,
   castling_right_short |-> g.board.castling_right_short,
   half_move_of_last_capture |-> g.half_move_of_last_capture]

\* update_board_with_move(m) for a move of the current legal move list
Make ==
  /\ \E m \in LegalMoves.moves :
       /\ IF Len(stack) < Len(plan.line)
          THEN m = plan.line[Len(stack) + 1]
          ELSE plan.tail /\ Len(stack) < Len(plan.line) + MaxPly
       /\ game' = update_board_with_move(game, m)
       /\ stack' = Append(stack, Saved(game, m))
  /\ history' = Append(history, game'.board)
  /\ seen' = seen \cup {Observed(game')}
  /\ last_op' = "update_board_with_move"
  /\ UNCHANGED <<undos, plan, table_vars, search_vars>>

\* update_board_undo_move of the last move a search made, with the scalars
\* saved before it
Undo ==
  /\ plan.searching
  /\ Len(stack) > Len(plan.line)
  /\ undos < MaxUndos
  /\ LET top == stack[Len(stack)]
     IN  game' = update_board_undo_move(game, top.m, top.castling_right_long,
                                        top.castling_right_short,
                                        top.half_move_of_last_capture)
  /\ stack' = SubSeq(stack, 1, Len(stack) - 1)
  /\ history' = SubSeq(history, 1, Len(history) - 1)
  /\ seen' = seen \cup {Observed(game')}
  /\ undos' = undos + 1
  /\ last_op' = "update_board_undo_move"
  /\ UNCHANGED <<plan, table_vars, search_vars>>

Next == Make \/ Undo

Spec == Init /\ [][Next]_vars

\* the result GameState::make_move reports for the current position
MoveResult == get_move_result(game, LegalMoves.moves, LegalMoves.in_check)

\* ===================================================================
\* Properties
\* ===================================================================

\* occurrence count of a key (0 for a key the map does not hold)
Count(g, key) ==
  IF key \in DOMAIN g.position_occurance_counter
  THEN g.position_occurance_counter[key] ELSE 0

SameCounts(g1, g2) ==
  \A key \in DOMAIN g1.position_occurance_counter \cup DOMAIN g2.position_occurance_counter :
    Count(g1, key) = Count(g2, key)

SameGameState(g1, g2) ==
  /\ g1.board = g2.board
  /\ g1.half_move_number = g2.half_move_number
  /\ g1.move_number = g2.move_number
  /\ g1.half_move_of_last_capture = g2.half_move_of_last_capture
  /\ g1.pos_hash = g2.pos_hash
  /\ SameCounts(g1, g2)

\* make m, then undo m with the scalars saved before the make
MakeUndo(g, m) ==
  update_board_undo_move(update_board_with_move(g, m), m,
                         g.board.castling_right_long, g.board.castling_right_short,
                         g.half_move_of_last_capture)

FromStandardStart == plan.board = Board_default /\ undos = 0

\* C1: for every position reachable from the standard start by makes and
\* every legal move m, make(m) followed by undo(m, saved scalars) leaves the
\* GameState equal to the one before: bitboards, side to move, castling
\* rights, en-passant square, the three counters, pos_hash and every
\* occurrence count.
C1_MakeUndoRoundTrip ==
  FromStandardStart =>
    \A m \in LegalMoves.moves : SameGameState(MakeUndo(game, m), game)

\* ----------------------------------------------- reference generator
\* The rules of chess, written square by square on the piece placement;
\* it shares nothing with the generator above but the Move encoding.
Ref_side_at(b, sq) ==
  IF \E p \in Piece_VALUES : sq \in b.pieces[p][White] THEN White
  ELSE IF \E p \in Piece_VALUES : sq \in b.pieces[p][Black] THEN Black
  ELSE 2

Ref_piece_at(b, sq, side) == CHOOSE p \in Piece_VALUES : sq \in b.pieces[p][side]

Ref_empty(b, sq) == Ref_side_at(b, sq) = 2

Ref_abs(x) == IF x < 0 THEN 0 - x ELSE x

Ref_sgn(x) == IF x < 0 THEN 0 - 1 ELSE IF x > 0 THEN 1 ELSE 0

\* squares strictly between a and b on a common rank, file or diagonal
Ref_between(a, c) ==
  LET df == file(c) - file(a)
      dr == rank(c) - rank(a)
      n == IF Ref_abs(df) > Ref_abs(dr) THEN Ref_abs(df) ELSE Ref_abs(dr)
  IN  {a + i * (Ref_sgn(dr) * 8 + Ref_sgn(df)) : i \in 1..(n - 1)}

Ref_on_line(a, c, piece) ==
  LET df == Ref_abs(file(c) - file(a))
      dr == Ref_abs(rank(c) - rank(a))
  IN  /\ a # c
      /\ \/ piece \in {Rook, Queen} /\ (df = 0 \/ dr = 0)
         \/ piece \in {Bishop, Queen} /\ df = dr

\* does the piece of `side` standing on `from` attack `to` on board b
Ref_piece_attacks(b, piece, side, from, to) ==
  LET df == file(to) - file(from)
      dr == rank(to) - rank(from)
  IN  CASE piece = Pawn -> Ref_abs(df) = 1 /\ dr = (IF side = White THEN 1 ELSE 0 - 1)
        [] piece = Knight -> {Ref_abs(df), Ref_abs(dr)} = {1, 2}
        [] piece = King -> from # to /\ Ref_abs(df) <= 1 /\ Ref_abs(dr) <= 1
        [] OTHER -> /\ Ref_on_line(from, to, piece)
                    /\ \A x \in Ref_between(from, to) : Ref_empty(b, x)

Ref_attacked(b, sq, by_side) ==
  \E p \in Piece_VALUES : \E from \in b.pieces[p][by_side] :
    Ref_piece_attacks(b, p, by_side, from, sq)

Ref_in_check(b, side) ==
  \E k \in b.pieces[King][side] : Ref_attacked(b, k, opposite(side))

\* the placement after a move, rebuilt square by square
Ref_apply(b, m) ==
  LET side == m.side
      opp == opposite(side)
      king_from == IF side = White THEN 3 ELSE 59
      Lift(ps, p, sd, sq) == [ps EXCEPT ![p][sd] = @ \ {sq}]
      Drop(ps, p, sd, sq) == [ps EXCEPT ![p][sd] = @ \cup {sq}]
      ps == b.pieces
      new_pieces ==
        CASE m.move_type.tag = "CastleShort" ->
               Drop(Drop(Lift(Lift(ps, King, side, king_from), Rook, side, king_from - 3),
                         King, side, king_from - 2), Rook, side, king_from - 1)
          [] m.move_type.tag = "CastleLong" ->
               Drop(Drop(Lift(Lift(ps, King, side, king_from), Rook, side, king_from + 4),
                         King, side, king_from + 2), Rook, side, king_from + 1)
          [] OTHER ->
               LET cleared ==
                     CASE m.move_type.tag = "EnPassantCapture" ->
                            Lift(ps, Pawn, opp, IF side = White THEN m.to_square - 8
                                                ELSE m.to_square + 8)
                       [] m.move_type.tag \in {"Capture", "CapturePromotion"} ->
                            Lift(ps, m.move_type.victim, opp, m.to_square)
                       [] OTHER -> ps
                   landed == IF m.move_type.promo # NoPiece THEN m.move_type.promo
                             ELSE m.piece
               IN  Drop(Lift(cleared, m.piece, side, m.from_square),
                        landed, side, m.to_square)
  IN  [b EXCEPT !.pieces = new_pieces, !.side_to_move = opp]

Ref_last_rank(side, sq) == rank(sq) = (IF side = White THEN 7 ELSE 0)

Ref_pawn_moves(b, side, from) ==
  LET fwd == IF side = White THEN 8 ELSE 0 - 8
      start_rank == IF side = White THEN 1 ELSE 6
      one == from + fwd
      pushes ==
        IF one \in Squares /\ Ref_empty(b, one)
        THEN {one} \cup (IF rank(from) = start_rank /\ Ref_empty(b, one + fwd)
                         THEN {one + fwd} ELSE {})
        ELSE {}
      diagonals == {t \in Squares : Ref_piece_attacks(b, Pawn, side, from, t)}
      takes == {t \in diagonals : Ref_side_at(b, t) = opposite(side)}
      ep == {t \in diagonals : b.en_passant_square # 0 /\ t = b.en_passant_square
                               /\ Ref_empty(b, t)}
      Typed(t, capture) ==
        IF Ref_last_rank(side, t)
        THEN {Move(from, t,
                   IF capture THEN CapturePromotion(Ref_piece_at(b, t, opposite(side)), pp)
                   ELSE Promotion(pp), Pawn, side) : pp \in PROMOTION_PIECES}
        ELSE {Move(from, t,
                   IF capture THEN Capture(Ref_piece_at(b, t, opposite(side))) ELSE Quiet,
                   Pawn, side)}
  IN  UNION {Typed(t, FALSE) : t \in pushes}
        \cup UNION {Typed(t, TRUE) : t \in takes}
        \cup {Move(from, t, EnPassantCapture(Pawn), Pawn, side) : t \in ep}

Ref_piece_moves(b, piece, side, from) ==
  {Move(from, t,
        IF Ref_side_at(b, t) = opposite(side)
        THEN Capture(Ref_piece_at(b, t, opposite(side))) ELSE Quiet,
        piece, side) :
     t \in {x \in Squares : Ref_piece_attacks(b, piece, side, from, x)
                            /\ Ref_side_at(b, x) # side}}

Ref_castles(b, side) ==
  LET k == IF side = White THEN 3 ELSE 59
      opp == opposite(side)
      ready == k \in b.pieces[King][side] /\ ~Ref_attacked(b, k, opp)
  IN  (IF /\ ready
          /\ b.castling_right_short[side]
          /\ (k - 3) \in b.pieces[Rook][side]
          /\ \A x \in {k - 1, k - 2} : Ref_empty(b, x) /\ ~Ref_attacked(b, x, opp)
       THEN {Move(0, 0, CastleShort, King, side)} ELSE {})
      \cup
      (IF /\ ready
          /\ b.castling_right_long[side]
          /\ (k + 4) \in b.pieces[Rook][side]
          /\ \A x \in {k + 1, k + 2, k + 3} : Ref_empty(b, x)
          /\ \A x \in {k + 1, k + 2} : ~Ref_attacked(b, x, opp)
       THEN {Move(0, 0, CastleLong, King, side)} ELSE {})

Ref_pseudo_legal(b) ==
  LET side == b.side_to_move
  IN  UNION {Ref_pawn_moves(b, side, from) : from \in b.pieces[Pawn][side]}
        \cup UNION {UNION {Ref_piece_moves(b, piece, side, from) :
                             from \in b.pieces[piece][side]} :
                      piece \in Piece_VALUES \ {Pawn}}
        \cup Ref_castles(b, side)

Ref_legal_moves(b) ==
  {m \in Ref_pseudo_legal(b) : ~Ref_in_check(Ref_apply(b, m), b.side_to_move)}

\* C2: get_legal_moves returns exactly the moves of the reference generator
\* (pseudo-legal moves after which the mover's king is not attacked), and
\* in_check is true exactly when the king of the side to move is attacked.
C2_GeneratorMatchesReference ==
  /\ LegalMoves.moves = Ref_legal_moves(game.board)
  /\ LegalMoves.in_check = Ref_in_check(game.board, game.board.side_to_move)

\* ------------------------------------------------------------- C3
\* C3: from GameState::new the number of move sequences is 20, 400, 8902,
\* 197281 and 4865609 at depths 1 to 5, and the 20 first moves are 8 single
\* pawn pushes, 8 double pawn pushes and 4 knight moves.
C3_Perft ==
  (game = GameState_new /\ plan.line = <<>>) =>
    LET first == LegalMoves.moves
        pawn == {m \in first : m.piece = Pawn /\ m.move_type = Quiet}
    IN  /\ Cardinality(first) = 20
        /\ Cardinality({m \in pawn : m.to_square - m.from_square = 8}) = 8
        /\ Cardinality({m \in pawn : m.to_square - m.from_square = 16}) = 8
        /\ Cardinality({m \in first : m.piece = Knight /\ m.move_type = Quiet}) = 4
        /\ Perft(game, 1) = 20
        /\ Perft(game, 2) = 400
        /\ Perft(game, 3) = 8902
        /\ Perft(game, 4) = 197281
        /\ Perft(game, 5) = 4865609

\* a move sequence of two plies has been played from GameState::new
C3_Witness ==
  /\ plan.board = Board_default /\ plan.line = <<>>
  /\ Len(stack) = 2 /\ last_op = "update_board_with_move"

\* ------------------------------------------------------------- C4
\* the game consists of k four-half-move cycles of non-capturing moves, each
\* returning to the board the game was constructed on
CycleReturns(k) ==
  /\ undos = 0
  /\ Len(stack) = 4 * k
  /\ \A i \in 1..(4 * k) :
       /\ ~is_capture(stack[i].m)
       /\ i > 4 => stack[i].m = stack[i - 4].m
  /\ \A j \in 0..k : history[4 * j + 1] = history[1]

\* C4: playing a four-half-move cycle back to the starting position p three
\* times from a fresh game, the result is not Draw(ThreeFoldRepetition) after
\* the first and the second return, and after the third return it is, with
\* the occurrence count of p's key equal to 3.
C4_ThreeCycles ==
  /\ (CycleReturns(1) \/ CycleReturns(2)) => MoveResult # "Draw(ThreeFoldRepetition)"
  /\ CycleReturns(3) =>
       /\ MoveResult = "Draw(ThreeFoldRepetition)"
       /\ Count(game, ZobristHasher_hash(history[1])) = 3

C4_Witness == CycleReturns(3) /\ game.threefold_repetition

\* ------------------------------------------------------------- C5
\* number of times board b has been the position of the game so far
Occurrences(b) == Cardinality({i \in 1..Len(history) : history[i] = b})

\* C5: in every state of a game, the fresh one included, the count stored
\* for the key of the current position is at least 1 and equals the number
\* of times the position has occurred, and Draw(ThreeFoldRepetition) is
\* reported exactly on the third occurrence.
C5_OccurrenceCount ==
  undos = 0 =>
    /\ Count(game, ZobristHasher_hash(game.board)) >= 1
    /\ Count(game, ZobristHasher_hash(game.board)) = Occurrences(game.board)
    /\ (MoveResult = "Draw(ThreeFoldRepetition)") <=> (Occurrences(game.board) = 3)

\* ------------------------------------------------------------- C6
\* C6: within one game, two states with the same bitboards, side to move,
\* castling rights and en-passant square have the same pos_hash, the state
\* the game was constructed in included.
C6_HashDeterminism ==
  \A s \in seen : s.board = game.board => s.pos_hash = game.pos_hash

\* ------------------------------------------------------------- C7
\* C7: whenever the side to move has no legal move and is in check, the
\* move result is Checkmate.
C7_Checkmate ==
  (LegalMoves.moves = {} /\ LegalMoves.in_check) => MoveResult = "Checkmate"

\* ------------------------------------------------------------- C8
\* half-moves played since the last capture, or since the start of the game
CaptureIndices == {i \in 1..Len(stack) : is_capture(stack[i].m)}

PliesSinceCapture ==
  IF CaptureIndices = {} THEN Len(stack)
  ELSE Len(stack) - (CHOOSE i \in CaptureIndices : \A j \in CaptureIndices : j <= i)

\* C8: Draw(FiftyMoveRule) is the result in exactly the states in which at
\* least 100 half-moves have been played since the last capture (or since
\* the start).
C8_FiftyMoveRule ==
  undos = 0 => ((MoveResult = "Draw(FiftyMoveRule)") <=> (PliesSinceCapture >= 100))

\* ------------------------------------------------------------- C9
LastMove == stack[Len(stack)].m

BoardBefore == history[Len(history) - 1]

AfterMake == last_op = "update_board_with_move"

\* C9: after a capture (Capture or CapturePromotion) of a rook on the
\* opponent's original short or long rook corner, the opponent's castling
\* right for that corner is false.
C9_RookCapturedOnCorner ==
  (AfterMake /\ LastMove.move_type.tag \in {"Capture", "CapturePromotion"}
     /\ LastMove.move_type.victim = Rook) =>
    LET opp == opposite(LastMove.side)
    IN  /\ LastMove.to_square = ROOK_SHORT_SQUARES[opp] => ~game.board.castling_right_short[opp]
        /\ LastMove.to_square = ROOK_LONG_SQUARES[opp] => ~game.board.castling_right_long[opp]

\* ------------------------------------------------------------- C10
\* C10: a king move (castling included) clears both rights of the mover; a
\* rook move from the mover's short (long) corner clears its short (long)
\* right; in both cases the opponent's rights and the mover's other right
\* are unchanged; no make turns a right from false to true.
C10_CastlingRightsUpdate ==
  AfterMake =>
    LET m == LastMove
        s == m.side
        opp == opposite(s)
        before == BoardBefore
        after == game.board
        from_short == m.piece = Rook /\ m.from_square = ROOK_SHORT_SQUARES[s]
        from_long == m.piece = Rook /\ m.from_square = ROOK_LONG_SQUARES[s]
    IN  /\ m.piece = King =>
             ~after.castling_right_long[s] /\ ~after.castling_right_short[s]
        /\ from_short =>
             /\ ~after.castling_right_short[s]
             /\ after.castling_right_long[s] = before.castling_right_long[s]
        /\ from_long =>
             /\ ~after.castling_right_long[s]
             /\ after.castling_right_short[s] = before.castling_right_short[s]
        /\ (m.piece = King \/ from_short \/ from_long) =>
             /\ after.castling_right_long[opp] = before.castling_right_long[opp]
             /\ after.castling_right_short[opp] = before.castling_right_short[opp]
        /\ \A side \in Side_VALUES :
             /\ ~before.castling_right_long[side] => ~after.castling_right_long[side]
             /\ ~before.castling_right_short[side] => ~after.castling_right_short[side]

\* a rook has just left its short corner: the short right it held is gone,
\* the long right it held is kept
C10_Witness ==
  /\ AfterMake
  /\ LastMove.piece = Rook
  /\ LastMove.from_square = ROOK_SHORT_SQUARES[LastMove.side]
  /\ BoardBefore.castling_right_short[LastMove.side]
  /\ BoardBefore.castling_right_long[LastMove.side]
  /\ ~game.board.castling_right_short[LastMove.side]
  /\ game.board.castling_right_long[LastMove.side]

\* ------------------------------------------------------ castling rules
CastleKinds == {"short", "long"}

KingHome(side) == IF side = White THEN 3 ELSE 59

\* squares between the king and the castling rook
CastleBetween(kind, side) ==
  IF kind = "short" THEN {KingHome(side) - 1, KingHome(side) - 2}
  ELSE {KingHome(side) + 1, KingHome(side) + 2, KingHome(side) + 3}

\* the square the king crosses and the square it lands on
CastleKingPath(kind, side) ==
  IF kind = "short" THEN {KingHome(side) - 1, KingHome(side) - 2}
  ELSE {KingHome(side) + 1, KingHome(side) + 2}

CastleCorner(kind, side) ==
  IF kind = "short" THEN KingHome(side) - 3 ELSE KingHome(side) + 4

CastleRight(b, kind, side) ==
  IF kind = "short" THEN b.castling_right_short[side] ELSE b.castling_right_long[side]

CastleMove(kind, side) ==
  Move(0, 0, IF kind = "short" THEN CastleShort ELSE CastleLong, King, side)

\* number of pieces standing on a square
PiecesOn(b, sq) ==
  Cardinality({ps \in Piece_VALUES \X Side_VALUES : sq \in b.pieces[ps[1]][ps[2]]})

SideToMove == game.board.side_to_move

\* ------------------------------------------------------------- C11
\* C11: no castling move is generated while a square between the king and
\* the castling rook holds a piece of either side, and after a castling move
\* the king and the rook each stand alone on their squares.
C11_NoCastleThroughPieces ==
  /\ \A kind \in CastleKinds :
       CastleMove(kind, SideToMove) \in LegalMoves.moves =>
         \A x \in CastleBetween(kind, SideToMove) : Ref_empty(game.board, x)
  /\ (AfterMake /\ is_castling(LastMove)) =>
       \A sq \in game.board.pieces[King][LastMove.side]
                   \cup game.board.pieces[Rook][LastMove.side] :
         PiecesOn(game.board, sq) = 1

\* ------------------------------------------------------------- C12
\* C12: with the king at home and not in check, the right held, the rook on
\* its corner and the squares between them empty, the castle is generated
\* exactly when neither the square the king crosses nor the square it lands
\* on is attacked; short and long, both sides.
C12_CastleIffKingPathSafe ==
  \A kind \in CastleKinds :
    (/\ KingHome(SideToMove) \in game.board.pieces[King][SideToMove]
     /\ ~Ref_in_check(game.board, SideToMove)
     /\ CastleRight(game.board, kind, SideToMove)
     /\ CastleCorner(kind, SideToMove) \in game.board.pieces[Rook][SideToMove]
     /\ \A x \in CastleBetween(kind, SideToMove) : Ref_empty(game.board, x))
    => (CastleMove(kind, SideToMove) \in LegalMoves.moves
          <=> \A x \in CastleKingPath(kind, SideToMove) :
                ~Ref_attacked(game.board, x, opposite(SideToMove)))

\* ------------------------------------------------------------- C13
\* C13: no castling move is generated when the side to move is in check,
\* when its king is not at home, when the right is false, or when none of
\* its rooks stands on the corner.
C13_NoCastleWithoutPreconditions ==
  \A kind \in CastleKinds :
    CastleMove(kind, SideToMove) \in LegalMoves.moves =>
      /\ ~Ref_in_check(game.board, SideToMove)
      /\ KingHome(SideToMove) \in game.board.pieces[King][SideToMove]
      /\ CastleRight(game.board, kind, SideToMove)
      /\ CastleCorner(kind, SideToMove) \in game.board.pieces[Rook][SideToMove]

\* the side to move is in check and only the check keeps it from castling
C13_Witness ==
  /\ Ref_in_check(game.board, SideToMove)
  /\ \E kind \in CastleKinds :
       /\ KingHome(SideToMove) \in game.board.pieces[King][SideToMove]
       /\ CastleRight(game.board, kind, SideToMove)
       /\ CastleCorner(kind, SideToMove) \in game.board.pieces[Rook][SideToMove]
       /\ \A x \in CastleBetween(kind, SideToMove) :
            Ref_empty(game.board, x) /\ ~Ref_attacked(game.board, x, opposite(SideToMove))
       /\ CastleMove(kind, SideToMove) \notin LegalMoves.moves

\* ------------------------------------------------------------- C14
IsDiagonal(m) ==
  /\ Ref_abs(file(m.to_square) - file(m.from_square)) = 1
  /\ Ref_abs(rank(m.to_square) - rank(m.from_square)) = 1

\* C14: a diagonal pawn move is generated only onto a square that holds an
\* opposing piece or that is the current en-passant square; with no
\* en-passant square set (value 0) no diagonal pawn move goes to an empty
\* square, square 0 included.
C14_DiagonalPawnMovesCapture ==
  \A m \in LegalMoves.moves :
    (m.piece = Pawn /\ IsDiagonal(m)) =>
      \/ Ref_side_at(game.board, m.to_square) = opposite(SideToMove)
      \/ game.board.en_passant_square # 0
           /\ m.to_square = game.board.en_passant_square

\* ------------------------------------------------------------- C15
\* with both pawns of the en-passant capture m taken off their rank, an
\* enemy rook or queen on that rank sees the mover's king
ExposedOnRank(b, m) ==
  \E k \in b.pieces[King][m.side] :
    \E r \in b.pieces[Rook][opposite(m.side)] \cup b.pieces[Queen][opposite(m.side)] :
      /\ rank(k) = rank(m.from_square)
      /\ rank(r) = rank(k)
      /\ \A x \in Ref_between(k, r) :
           x \in {m.from_square, enemy_pawn_square(m)} \/ Ref_empty(b, x)

\* C15: an EnPassantCapture is generated only if, with the capturing and the
\* captured pawn removed from their rank, no enemy rook or queen attacks the
\* mover's king along that rank.
C15_EnPassantKeepsRankClosed ==
  \A m \in LegalMoves.moves :
    m.move_type.tag = "EnPassantCapture" => ~ExposedOnRank(game.board, m)

\* ------------------------------------------------------------- C16
DoublePush(m) ==
  /\ m.piece = Pawn
  /\ m.move_type = Quiet
  /\ Ref_abs(m.to_square - m.from_square) = 16

PawnsBeside(b, m) ==
  {p \in b.pieces[Pawn][b.side_to_move] :
     rank(p) = rank(m.to_square) /\ Ref_abs(file(p) - file(m.to_square)) = 1}

EnPassantBy(b, p) ==
  Move(p, b.en_passant_square, EnPassantCapture(Pawn), Pawn, b.side_to_move)

\* C17: directly after a double pawn push that lands beside an enemy pawn,
\* when the capture does not leave the capturer's king attacked, the
\* opponent's legal moves contain that pawn's move to the en-passant square
\* typed EnPassantCapture(Pawn); making it puts the capturing pawn on the
\* en-passant square, removes the pushed pawn and changes no other bitboard.
C17_EnPassantOffered ==
  (AfterMake /\ DoublePush(LastMove)) =>
    \A p \in PawnsBeside(game.board, LastMove) :
      ~Ref_in_check(Ref_apply(game.board, EnPassantBy(game.board, p)), SideToMove) =>
        /\ EnPassantBy(game.board, p) \in LegalMoves.moves
        /\ board_with_move(game.board, EnPassantBy(game.board, p)).pieces
             = Ref_apply(game.board, EnPassantBy(game.board, p)).pieces

\* ------------------------------------------------------------- C18
\* the legal moves of one (from, to) pair
MovesOfPair(from, to) ==
  {x \in LegalMoves.moves : ~is_castling(x) /\ x.from_square = from /\ x.to_square = to}

\* C18: for each pawn of the side to move and each last-rank square it may
\* move to there are exactly four moves, one per promotion piece; they are
\* CapturePromotion(victim, piece) with the actual victim when the target
\* holds an enemy piece and Promotion(piece) when the pawn pushes straight to
\* an empty square; making one leaves no pawn on the target and puts the
\* promoted piece there.
C18_FourPromotions ==
  \A m \in LegalMoves.moves :
    (m.piece = Pawn /\ Ref_last_rank(m.side, m.to_square)) =>
      /\ Cardinality(MovesOfPair(m.from_square, m.to_square)) = 4
      /\ {x.move_type.promo : x \in MovesOfPair(m.from_square, m.to_square)}
           = PROMOTION_PIECES
      /\ Ref_side_at(game.board, m.to_square) = opposite(m.side) =>
           m.move_type = CapturePromotion(
                           Ref_piece_at(game.board, m.to_square, opposite(m.side)),
                           m.move_type.promo)
      /\ (Ref_empty(game.board, m.to_square) /\ ~IsDiagonal(m)) =>
           m.move_type = Promotion(m.move_type.promo)
      /\ m.to_square \notin board_with_move(game.board, m).pieces[Pawn][m.side]
      /\ m.to_square \in board_with_move(game.board, m).pieces[m.move_type.promo][m.side]

\* a pawn has just promoted with a capture, while it could also have pushed
C18_Witness ==
  /\ AfterMake
  /\ LastMove.move_type.tag = "CapturePromotion"
  /\ LastMove.to_square \in game.board.pieces[LastMove.move_type.promo][LastMove.side]
  /\ \E p \in PROMOTION_PIECES :
       Move(LastMove.from_square,
            LastMove.from_square + (IF LastMove.side = White THEN 8 ELSE 0 - 8),
            Promotion(p), Pawn, LastMove.side)
         \in get_legal_moves(update_occupation_boards(
               [game EXCEPT !.board = BoardBefore])).moves

\* ------------------------------------------------------------- C19
\* C19: in every state reached from the standard start by legal moves the
\* twelve piece bitboards are pairwise disjoint: no square holds two pieces.
C19_BitboardsDisjoint ==
  FromStandardStart => \A sq \in Squares : PiecesOn(game.board, sq) <= 1

\* ------------------------------------------------------------- C20
AfterUndo == last_op = "update_board_undo_move"

SpecialMoveTags ==
  {"CastleShort", "CastleLong", "EnPassantCapture", "Promotion", "CapturePromotion"}

\* one step: a make flips side_to_move away from the mover, an undo flips
\* it back to the mover of the undone move
SideFlips ==
  /\ game'.board.side_to_move = opposite(game.board.side_to_move)
  /\ last_op' = "update_board_with_move" =>
       /\ stack'[Len(stack')].m.side = game.board.side_to_move
       /\ game'.board.side_to_move = opposite(stack'[Len(stack')].m.side)
  /\ last_op' = "update_board_undo_move" =>
       game'.board.side_to_move = stack[Len(stack)].m.side

\* C20: every update_board_with_move flips side_to_move whatever the move
\* type, every update_board_undo_move flips it back, and every move returned
\* by get_legal_moves carries the current side_to_move.
C20_SideAlternates ==
  /\ [](\A m \in LegalMoves.moves : m.side = SideToMove)
  /\ [][SideFlips]_vars

\* a search undid a move that followed a castle, an en-passant capture or a
\* promotion
C20_Witness ==
  /\ AfterUndo
  /\ Len(stack) >= 1
  /\ LastMove.move_type.tag \in SpecialMoveTags
  /\ SideToMove = opposite(LastMove.side)

\* ---------------------------------------------------------- MagicSpec
\* Construction of the magic tables, one piece and one square at a time.
MagicPieces == {Bishop, Rook}

\* rank offsets of the squares whose precomputed magic is drawn as a trial
TrialOffsets == {0, 8, 56}

\* values that rng.gen::<u64>() & rng.gen::<u64>() & rng.gen::<u64>() may
\* take in compute_magics: zero and the precomputed magics of the square
\* and of its neighbours on the file
MagicTrials(piece, square) ==
  {U64(0, 0, 0, 0)}
    \cup {PRECOMP_MAGICS(piece)[((square + d) % N_SQUARES) + 1] : d \in TrialOffsets}

\* the game every specification without moves holds
NoGame == {Game(Board_default, <<>>, FALSE, FALSE)}

\* the slice that is going to be built
Unbuilt(piece, square) == [built_by |-> "none", piece |-> piece, square |-> square]

MagicInit ==
  /\ GameInit(NoGame)
  /\ magic_bb \in {Unbuilt(piece, square) : piece \in MagicPieces, square \in Squares}
  /\ ray_tables = NotBuilt
  /\ search = Idle
  /\ pool = Idle

\* MagicBitboard::init_precomputed
InitPrecomputed ==
  /\ magic_bb.built_by = "none"
  /\ magic_bb' = MagicBitboard_init_precomputed(magic_bb.piece, magic_bb.square)
  /\ UNCHANGED <<game_vars, ray_tables, search_vars>>

\* MagicBitboard::init: compute_magics retries until a trial passes
InitComputed ==
  /\ magic_bb.built_by = "none"
  /\ \E magic \in MagicTrials(magic_bb.piece, magic_bb.square) :
       /\ is_perfect_magic(magic_bb.piece, magic_bb.square, magic)
       /\ magic_bb' = MagicBitboard_init(magic_bb.piece, magic_bb.square, magic)
  /\ UNCHANGED <<game_vars, ray_tables, search_vars>>

MagicNext == InitPrecomputed \/ InitComputed

MagicSpec == MagicInit /\ [][MagicNext]_vars

\* ------------------------------------------------------------- C21
\* C21: for every square and every subset of the square's blocker mask the
\* table lookup get_bishop_moves / get_rook_moves gives what the ray walk
\* get_bishop_rays / get_rook_rays gives, in tables built by
\* init_precomputed and in tables built by init.
C21_MagicLookupIsRayWalk ==
  magic_bb.built_by # "none" =>
    \A blockers \in SUBSET magic_masks(magic_bb.piece)[magic_bb.square] :
      MagicBitboard_get_moves(magic_bb, magic_bb.square, blockers)
        = magic_rays(magic_bb.piece, magic_bb.square, blockers)

\* init kept a magic other than the precomputed one for a rook square, and
\* two blocker subsets of the square have different attack sets
C21_Witness ==
  /\ magic_bb.built_by = "init"
  /\ magic_bb.piece = Rook
  /\ magic_bb.magic # PRECOMP_ROOK_MAGICS[magic_bb.square + 1]
  /\ \E blockers \in SUBSET rook_masks[magic_bb.square] :
       MagicBitboard_get_moves(magic_bb, magic_bb.square, blockers)
         # MagicBitboard_get_moves(magic_bb, magic_bb.square, {})

\* ----------------------------------------------------------- RaysSpec
\* get_bishop_rays / get_rook_rays applied to every square of a board with
\* a given blocker set.
RECURSIVE SetsUpTo(_)
SetsUpTo(n) ==
  IF n = 0 THEN {{}}
  ELSE Only({smaller \cup {S \cup {x} : S \in smaller, x \in Squares}
             : smaller \in {SetsUpTo(n - 1)}})

\* the blocker sets of at most MaxBlockers squares
BlockerSets == SetsUpTo(MaxBlockers)

RaysInit ==
  /\ GameInit(NoGame)
  /\ magic_bb = NotBuilt
  /\ ray_tables \in {[built_by |-> "none", piece |-> piece, blockers |-> blockers]
                       : piece \in MagicPieces, blockers \in BlockerSets}
  /\ search = Idle
  /\ pool = Idle

\* get_bishop_rays(square, blockers) or get_rook_rays(square, blockers) for
\* every square
GetRays ==
  /\ ray_tables.built_by = "none"
  /\ ray_tables' =
       [built_by |-> "get_rays", piece |-> ray_tables.piece,
        blockers |-> ray_tables.blockers,
        attacks |-> [square \in Squares |->
                       magic_rays(ray_tables.piece, square, ray_tables.blockers)]]
  /\ UNCHANGED <<game_vars, magic_bb, search_vars>>

RaysNext == GetRays

RaysSpec == RaysInit /\ [][RaysNext]_vars

\* ------------------------------------------------------------- C22
\* C22: for all squares s and t and every blocker set containing neither,
\* t is in get_bishop_rays(s, blockers) if and only if s is in
\* get_bishop_rays(t, blockers), and the same for get_rook_rays.  (Every
\* attacked t attacks back; with s and t ranging over all squares this is
\* the equivalence.)
C22_AttackSymmetry ==
  ray_tables.built_by = "get_rays" =>
    \A s \in Squares \ ray_tables.blockers :
      \A t \in ray_tables.attacks[s] \ ray_tables.blockers :
        s \in ray_tables.attacks[t]

\* two blockers stand on one ray of a free square s, whose attack stops at
\* the nearer one and still reaches a free square
C22_Witness ==
  /\ ray_tables.built_by = "get_rays"
  /\ Cardinality(ray_tables.blockers) = 2
  /\ \E s \in Squares \ ray_tables.blockers :
       /\ \E direction \in 0..7 : ray_tables.blockers \subseteq rays[direction][s]
       /\ ~(ray_tables.blockers \subseteq ray_tables.attacks[s])
       /\ ray_tables.attacks[s] \ ray_tables.blockers # {}


(***************************************************************************)
(* SearchAsync::find_best_legal_move.  Every root move is handed to a     *)
(* worker of the pool; a worker clones the game, makes its move on the    *)
(* clone and runs minimax on it, so the workers share no mutable state    *)
(* (the DashMap tt is never read or written).  The value a worker's       *)
(* minimax returns is an input of this specification; the order in which  *)
(* the workers finish is chosen by the scheduler.                         *)
(***************************************************************************)

\* f64::MIN and f64::MAX: the two extreme scores, each the negation of the other
F64_MIN == -1000000
F64_MAX == 1000000

\* the scores a worker's minimax may return
ScoreValues == {F64_MIN, -1, 1, F64_MAX}

\* longest list of root moves handed to the pool
MaxMoves == 3

\* a king in the corner and a pawn on the third rank for each side: four
\* legal moves for the side to move
Board_kings(side_to_move) ==
  PlaceBoard((0 :> <<King, White>>) @@ (23 :> <<Pawn, White>>)
             @@ (63 :> <<King, Black>>) @@ (40 :> <<Pawn, Black>>),
             side_to_move, 0, NoRights, NoRights)

PoolGames == {Game(Board_kings(side), <<>>, FALSE, FALSE) : side \in Side_VALUES}

\* the lists of distinct moves of length 1..n over a set of moves
MoveLists(moves, n) ==
  UNION {{l \in [1..k -> moves] : \A i, j \in 1..k : l[i] = l[j] => i = j} : k \in 1..n}

\* let mut best_move = legal_moves[0]
initial_best_move_null(legal_moves) == Move(0, 0, Quiet, King, White)
initial_best_move(legal_moves) == legal_moves[1]

\* let mut best_eval = if side_to_move == White { f64::MIN } else { f64::MAX }
initial_best_eval(side) == IF side = White THEN F64_MIN ELSE F64_MAX

\* for (eval, m) in move_evals { ... }
RECURSIVE best_of(_, _, _, _)
best_of(side, move_evals, i, best) ==
  IF i > Len(move_evals) THEN best
  ELSE IF side = White /\ move_evals[i][1] > best[1] THEN best_of(side, move_evals, i + 1, move_evals[i])
  ELSE IF side = Black /\ move_evals[i][1] < best[1] THEN best_of(side, move_evals, i + 1, move_evals[i])
  ELSE best_of(side, move_evals, i + 1, best)

\* into_par_iter().map(..).collect(): the Vec holds the workers' results in
\* the order of legal_moves, whatever the order they finished in
collect_in_completion_order(slots, done) == [k \in 1..Len(done) |-> slots[done[k]]]
collect(slots, done) == [i \in 1..Len(done) |-> slots[i]]

FindBestInit ==
  /\ GameInit(PoolGames)
  /\ magic_bb = NotBuilt
  /\ ray_tables = NotBuilt
  /\ search = Idle
  /\ \E legal_moves \in MoveLists(get_legal_moves(game).moves, MaxMoves) :
       \E evals \in [1..Len(legal_moves) -> ScoreValues] :
         pool = [state |-> "installed", legal_moves |-> legal_moves, minimax |-> evals,
                 slots |-> <<>>, done |-> <<>>, result |-> <<>>]

\* one worker finishes: (move_eval, m) of its own move
WorkerReturns ==
  /\ pool.state = "installed"
  /\ \E i \in 1..Len(pool.legal_moves) :
       /\ i \notin DOMAIN pool.slots
       /\ pool' = [pool EXCEPT !.slots = (i :> <<pool.minimax[i], pool.legal_moves[i]>>) @@ @,
                               !.done = Append(@, i)]
  /\ UNCHANGED <<game_vars, table_vars, search>>

\* every worker has finished: collect, then scan for the best
FindBestReturns ==
  /\ pool.state = "installed"
  /\ Len(pool.done) = Len(pool.legal_moves)
  /\ pool' = [pool EXCEPT !.state = "returned",
                          !.result = best_of(game.board.side_to_move,
                                             collect(pool.slots, pool.done), 1,
                                             <<initial_best_eval(game.board.side_to_move),
                                               initial_best_move(pool.legal_moves)>>)]
  /\ UNCHANGED <<game_vars, table_vars, search>>

FindBestNext == WorkerReturns \/ FindBestReturns

FindBestSpec == FindBestInit /\ [][FindBestNext]_vars

\* the best score for the side to move among the workers' scores
BestScore(side, evals) ==
  IF side = White
  THEN CHOOSE e \in {evals[i] : i \in DOMAIN evals} : \A j \in DOMAIN evals : evals[j] <= e
  ELSE CHOOSE e \in {evals[i] : i \in DOMAIN evals} : \A j \in DOMAIN evals : evals[j] >= e

\* the first position of the list that holds the best score
FirstBest(side, evals) ==
  CHOOSE i \in DOMAIN evals :
    /\ evals[i] = BestScore(side, evals)
    /\ \A j \in 1..(i - 1) : evals[j] # BestScore(side, evals)

\* C23: whatever the order in which the workers of the pool finish,
\* find_best_legal_move returns the best score for the side to move (the
\* greatest for White, the smallest for Black) together with the first move of
\* the input list that has that score.
C23_ScheduleIndependent ==
  pool.state = "returned" =>
    pool.result = <<BestScore(game.board.side_to_move, pool.minimax),
                    pool.legal_moves[FirstBest(game.board.side_to_move, pool.minimax)]>>

\* the workers finished in the reverse of the input order, the last two moves
\* tie for the best score, and the earlier of the two was returned
C23_Witness ==
  /\ pool.state = "returned"
  /\ pool.done = <<3, 2, 1>>
  /\ pool.minimax[2] = pool.minimax[3]
  /\ pool.minimax[1] # pool.minimax[2]
  /\ pool.result = <<pool.minimax[2], pool.legal_moves[2]>>

\* C25: find_best_legal_move returns an element of the non-empty list it was
\* given, whatever the workers' scores are.
C25_ReturnsListedMove ==
  pool.state = "returned" =>
    \E i \in 1..Len(pool.legal_moves) : pool.result[2] = pool.legal_moves[i]

\* every move got the worst possible score for the side to move, and the first
\* move of the list was returned
C25_Witness ==
  /\ pool.state = "returned"
  /\ Len(pool.legal_moves) > 1
  /\ \A i \in 1..Len(pool.legal_moves) :
       pool.minimax[i] = initial_best_eval(game.board.side_to_move)
  /\ pool.result[2] = pool.legal_moves[1]


(***************************************************************************)
(* SearchAsync::minimax and SearchAsync::qsearch.  The recursion is a     *)
(* stack of frames, one per call in progress; game is the GameState the   *)
(* calls share (&mut GameState).  eval(game) is floating-point arithmetic *)
(* over the position: the value it returns is chosen from EvalValues.     *)
(***************************************************************************)

\* depth argument of find_best_legal_move (args.depth)
SearchDepth == 2

\* the values eval(game) may return
EvalValues == {-3, 0, 3}

\* the score qsearch returns for a checkmate
MATE == 2000

\* MVVLA with the attackers in the opposite order
MVVLA_most_valuable_attacker ==
  << <<10, 11, 12, 13, 14, 15>>,
     <<20, 21, 22, 23, 24, 25>>,
     <<30, 31, 32, 33, 34, 35>>,
     <<40, 41, 42, 43, 44, 45>>,
     <<50, 51, 52, 53, 54, 55>>,
     <<0, 0, 0, 0, 0, 0>> >>

MVVLA ==
  << <<15, 14, 13, 12, 11, 10>>,
     <<25, 24, 23, 22, 21, 20>>,
     <<35, 34, 33, 32, 31, 30>>,
     <<45, 44, 43, 42, 41, 40>>,
     <<55, 54, 53, 52, 51, 50>>,
     <<0, 0, 0, 0, 0, 0>> >>

\* Move::prio as order_moves calls it, without a killer list: no quiet move
\* is a killer move
prio(m) ==
  (IF is_capture(m) THEN MVVLA[m.move_type.victim + 1][m.piece + 1] ELSE 0)
    + (IF is_promotion(m) THEN m.move_type.promo ELSE 0)

\* position of a move in the Vec get_legal_moves builds: pieces in the order
\* of the loop (the king first when in check), squares and targets from the
\* lowest bit up, the promotions of one target in the order of
\* PROMOTION_PIECES, the castling moves last
generation_key(m, in_check) ==
  LET slot == IF is_castling(m) THEN 6
              ELSE IF in_check THEN (IF m.piece = King THEN 0 ELSE m.piece + 1)
              ELSE m.piece
      promo == IF is_promotion(m) THEN m.move_type.promo ELSE 0
      castle == IF m.move_type.tag = "CastleLong" THEN 1 ELSE 0
  IN  ((slot * 64 + m.from_square) * 64 + m.to_square) * 8 + promo + castle

\* order_moves: highest prio first; the sort leaves moves of equal prio in the
\* order of the Vec when it holds at most twenty moves (insertion sort)
order_key(m, in_check) == (59 - prio(m)) * 262144 + generation_key(m, in_check)

order_moves(moves, in_check) ==
  Only({[i \in 1..Cardinality(keyed) |->
           (CHOOSE e \in keyed : Cardinality({x \in keyed : x[1] < e[1]}) = i - 1)[2]]
        : keyed \in {{<<order_key(m, in_check), m>> : m \in moves}}})

Draws == {"Draw(FiftyMoveRule)", "Draw(ThreeFoldRepetition)", "Draw(Stalemate)"}

\* a call in progress: its arguments, its locals and where it stands; eval and
\* stand_pat are what qsearch read at its first two statements
Frame(fn, g, legal_moves, max_depth, depth, in_check, alpha, beta, best) ==
  [fn |-> fn, pc |-> "loop", at_call |-> g, legal_moves |-> legal_moves, next |-> 1,
   max_depth |-> max_depth, depth |-> depth, in_check |-> in_check,
   alpha |-> alpha, beta |-> beta, best |-> best, value |-> 0,
   eval |-> 0, stand_pat |-> 0]

\* the call has reached a return statement with this value
Returning(frame, value) == [frame EXCEPT !.pc = "return", !.value = value]

\* qsearch up to its loop; eval_game is what eval(game) returned, and
\* "let mut stand_pat = eval(game)" takes it as it is for either side to move
qsearch_enter(g, legal_moves, max_depth, depth, in_check, alpha, beta, eval_game) ==
  LET stand_pat == eval_game
      frame == [Frame("qsearch", g, legal_moves, max_depth, depth, in_check, alpha, beta, stand_pat)
                  EXCEPT !.eval = eval_game, !.stand_pat = stand_pat]
      move_result == get_move_result(g, {legal_moves[i] : i \in DOMAIN legal_moves}, in_check)
  IN  IF move_result = "Checkmate"
      THEN Returning(frame, IF g.board.side_to_move = White THEN -MATE ELSE MATE)
      ELSE IF move_result \in Draws THEN Returning(frame, 0)
      ELSE IF depth >= max_depth THEN Returning(frame, stand_pat)
      ELSE IF ~in_check /\ stand_pat >= beta THEN Returning(frame, beta)
      ELSE IF alpha < stand_pat THEN [frame EXCEPT !.alpha = stand_pat]
      ELSE frame

\* minimax up to its loop; at the horizon it returns what qsearch returns
minimax_enter(g, legal_moves, max_depth, depth, in_check, alpha, beta, stand_pat) ==
  LET deeper == IF in_check THEN max_depth + 1 ELSE max_depth
  IN  IF depth >= deeper
      THEN qsearch_enter(g, legal_moves, deeper + 3, depth, in_check, alpha, beta, stand_pat)
      ELSE Frame("minimax", g, legal_moves, deeper, depth, in_check, alpha, beta,
                 IF g.board.side_to_move = White THEN F64_MIN ELSE F64_MAX)

\* qsearch skips the quiet moves when not in check
skipped(frame, m) ==
  frame.fn = "qsearch" /\ ~frame.in_check /\ ~(is_capture(m) \/ is_promotion(m))

\* index of the next move the loop makes, 0 when the loop is over
next_move(frame) ==
  LET left == {i \in frame.next..Len(frame.legal_moves) : ~skipped(frame, frame.legal_moves[i])}
  IN  IF left = {} THEN 0 ELSE CHOOSE i \in left : \A j \in left : i <= j

\* the loop is over or a return statement was reached
returns(frame) == frame.pc = "return" \/ (frame.pc = "loop" /\ next_move(frame) = 0)

\* best_eval at the end of minimax, alpha at the end of qsearch
return_value(frame) ==
  IF frame.pc = "return" THEN frame.value
  ELSE IF frame.fn = "minimax" THEN frame.best
  ELSE frame.alpha

\* the statements after update_board_undo_move in the loop body
after_undo(frame, side, eval) ==
  LET stepped == [frame EXCEPT !.pc = "loop", !.next = @ + 1]
      better == IF frame.fn = "minimax" /\ side = Black THEN eval < frame.best ELSE eval > frame.best
      kept == [stepped EXCEPT !.best = IF better THEN eval ELSE @]
  IN  IF frame.fn = "minimax" /\ side = White
      THEN LET raised == [kept EXCEPT !.alpha = IF eval > @ THEN eval ELSE @]
           IN  IF eval >= frame.beta THEN Returning(raised, raised.best) ELSE raised
      ELSE IF frame.fn = "minimax"
      THEN LET lowered == [kept EXCEPT !.beta = IF eval < @ THEN eval ELSE @]
           IN  IF eval <= frame.alpha THEN Returning(lowered, lowered.best) ELSE lowered
      ELSE IF eval >= frame.beta THEN Returning(kept, kept.alpha)
      ELSE [kept EXCEPT !.alpha = IF eval > @ THEN eval ELSE @]

Board_stalemate_trap ==
  PlaceBoard((35 :> <<King, White>>) @@ (50 :> <<Pawn, White>>) @@ (58 :> <<King, Black>>),
             White, 0, NoRights, NoRights)

\* Board_ep_check with White to move: after c5-c6 Black can answer d7-d5,
\* a double push that gives check
Board_push_with_check == [Board_ep_check EXCEPT !.side_to_move = White]

SearchGames ==
  {Game(Board_stalemate_trap, <<>>, FALSE, FALSE), Game(Board_pawns, <<>>, FALSE, FALSE),
   Game(Board_push_with_check, <<>>, FALSE, FALSE)}

\* the closure find_best_legal_move maps over the root moves, at its start: a
\* worker holds its own clone of the game and one root move m; it makes m and
\* calls minimax(branched_game, .., depth, 1, in_check, f64::MIN, f64::MAX)
Worker(g, m, depth) ==
  [state |-> "running",
   frames |-> <<[Frame("worker", g, <<m>>, depth, 0, FALSE, F64_MIN, F64_MAX, 0)
                   EXCEPT !.pc = "loop"]>>,
   ret |-> <<>>]

SearchInit ==
  /\ GameInit(SearchGames)
  /\ magic_bb = NotBuilt
  /\ ray_tables = NotBuilt
  /\ search \in {Worker(game, m, depth) :
                   m \in get_legal_moves(game).moves, depth \in 1..SearchDepth}
  /\ pool = Idle

Top == search.frames[Len(search.frames)]

\* update_board_with_move(m), get_legal_moves, order_moves and the call: of
\* minimax by the worker and by minimax, of qsearch by qsearch
SearchMake ==
  /\ search.state = "running"
  /\ search.ret = <<>>
  /\ \E top \in {Top} : \E i \in {next_move(top)} :
       /\ top.pc = "loop"
       /\ i # 0
       /\ \E stand_pat \in EvalValues :
            \E made \in {update_board_with_move(game, top.legal_moves[i])} :
              \E opposite_moves \in {get_legal_moves(made)} :
                \E legal_moves_opposite \in {order_moves(opposite_moves.moves, opposite_moves.in_check)} :
                  \E callee \in {IF top.fn = "qsearch"
                                  THEN qsearch_enter(made, legal_moves_opposite, top.max_depth,
                                                     top.depth + 1, opposite_moves.in_check,
                                                     -top.alpha, -top.beta, stand_pat)
                                  ELSE minimax_enter(made, legal_moves_opposite, top.max_depth,
                                                     top.depth + 1, opposite_moves.in_check,
                                                     top.alpha, top.beta, stand_pat)} :
                    /\ game' = made
                    /\ search' = [search EXCEPT !.frames =
                                    Append([@ EXCEPT ![Len(@)] = [top EXCEPT !.pc = "call", !.next = i]],
                                           callee)]
  /\ UNCHANGED <<stack, history, seen, undos, plan, last_op, table_vars, pool>>

\* the call of minimax or qsearch on top of the stack returns
SearchReturn ==
  /\ search.state = "running"
  /\ search.ret = <<>>
  /\ \E top \in {Top} :
       /\ returns(top)
       /\ search' = [search EXCEPT
                       !.frames = SubSeq(@, 1, Len(@) - 1),
                       !.ret = <<[fn |-> top.fn, depth |-> top.depth, in_check |-> top.in_check,
                                  side |-> top.at_call.board.side_to_move,
                                  n_moves |-> Len(top.legal_moves), at_call |-> top.at_call,
                                  value |-> return_value(top)]>>]
  /\ UNCHANGED <<game_vars, table_vars, pool>>

\* the rest of the loop body: undo the move, then take the value in
SearchUndo ==
  /\ search.state = "running"
  /\ search.ret # <<>>
  /\ \E top \in {Top} :
       /\ top.fn # "worker"
       /\ game' = update_board_undo_move(game, top.legal_moves[top.next],
                                         top.at_call.board.castling_right_long,
                                         top.at_call.board.castling_right_short,
                                         top.at_call.half_move_of_last_capture)
       /\ search' = [search EXCEPT
                       !.ret = <<>>,
                       !.frames[Len(search.frames)] =
                         after_undo(top, top.at_call.board.side_to_move,
                                    IF top.fn = "minimax" THEN search.ret[1].value
                                    ELSE -search.ret[1].value)]
  /\ UNCHANGED <<stack, history, seen, undos, plan, last_op, table_vars, pool>>

\* the worker's minimax has returned: the worker ends with (move_eval, m)
SearchDone ==
  /\ search.state = "running"
  /\ search.ret # <<>>
  /\ Top.fn = "worker"
  /\ search' = [search EXCEPT !.state = "returned"]
  /\ UNCHANGED <<game_vars, table_vars, pool>>

SearchNext == SearchMake \/ SearchReturn \/ SearchUndo \/ SearchDone

SearchSpec == SearchInit /\ [][SearchNext]_vars

\* a call of minimax or qsearch has just returned
JustReturned == search.state # "idle" /\ search.ret # <<>>

\* C24: when minimax or qsearch returns, the GameState is what it was at the
\* call: board (bitboards, side to move, castling rights, en-passant square),
\* move counters, pos_hash, occurrence counts and threefold flag.
C24_SearchRestoresState ==
  JustReturned =>
    /\ SameGameState(game, search.ret[1].at_call)
    /\ game.threefold_repetition = search.ret[1].at_call.threefold_repetition


\* C30: a call of minimax or qsearch for a side to move without legal moves
\* returns a mate score against that side when it is in check (negative for
\* White to move, positive for Black to move) and 0 when it is not.
C30_NoMovesScore ==
  JustReturned /\ search.ret[1].n_moves = 0 =>
    IF search.ret[1].in_check
    THEN IF search.ret[1].side = White THEN search.ret[1].value < 0 ELSE search.ret[1].value > 0
    ELSE search.ret[1].value = 0


\* ------------------------------------------------------ pins and checks
Sliders == {Bishop, Rook, Queen}

\* the king of the side to move
OwnKing(b) == CHOOSE k \in b.pieces[King][b.side_to_move] : TRUE

\* the occupied squares strictly between two squares of one line
Screen(b, a, c) == {x \in Ref_between(a, c) : ~Ref_empty(b, x)}

\* the enemy bishops, rooks and queens that stand on one of their lines with
\* the king k of the side to move, each with the pieces between it and k
SliderLines(b, k) ==
  UNION {{[slider |-> sq, screen |-> Screen(b, sq, k)] :
            sq \in {x \in b.pieces[p][opposite(b.side_to_move)] : Ref_on_line(x, k, p)}} :
         p \in Sliders}

\* the pieces of the side to move that are the only piece on such a line
Pinned(b, lines) ==
  UNION {line.screen \cap occupation_board(b, b.side_to_move) :
           line \in {l \in lines : Cardinality(l.screen) = 1}}

\* the squares of the enemy pieces that attack the king of the side to move
Checkers(b) ==
  {sq \in Squares :
     /\ Ref_side_at(b, sq) = opposite(b.side_to_move)
     /\ Ref_piece_attacks(b, Ref_piece_at(b, sq, opposite(b.side_to_move)),
                          opposite(b.side_to_move), sq, OwnKing(b))}

\* the moves the rules give the piece on x when the own king is left aside
MovesRuleGives(b, x) ==
  IF x \in b.pieces[Pawn][b.side_to_move]
  THEN Ref_pawn_moves(b, b.side_to_move, x)
  ELSE Ref_piece_moves(b, Ref_piece_at(b, x, b.side_to_move), b.side_to_move, x)

MovesFrom(moves, x) == {m \in moves : ~is_castling(m) /\ m.from_square = x}

\* C26: a piece of the side to move that is the only piece between its king
\* and an aligned enemy bishop, rook or queen moves only along that line, up
\* to and including the slider's square; a piece that shares the line with a
\* second piece, is pinned on no other line and whose king is not in check has
\* every move the rules give it.
C26_PinnedMovesOnLine ==
  \A b \in {game.board} : \A k \in {OwnKing(game.board)} : \A moves \in {LegalMoves.moves} :
    \A lines \in {SliderLines(b, k)} :
      \A line \in lines : \A x \in line.screen \cap occupation_board(b, b.side_to_move) :
        IF Cardinality(line.screen) = 1
        THEN \A m \in MovesFrom(moves, x) :
               m.to_square \in Ref_between(line.slider, k) \cup {line.slider}
        ELSE (Checkers(b) = {} /\ x \notin Pinned(b, lines))
               => MovesRuleGives(b, x) \subseteq MovesFrom(moves, x)

\* white to move on Board_pins: the rook on e2 can take the rook that pins it,
\* the knight on f2 cannot move, the knight on d1 moves freely
C26_Witness ==
  /\ game.board = Board_pins
  /\ Pinned(game.board, SliderLines(game.board, 3)) = {10, 11}
  /\ Move(11, 59, Capture(Rook), Rook, White) \in LegalMoves.moves
  /\ MovesFrom(LegalMoves.moves, 10) = {}
  /\ [slider |-> 7, screen |-> {4, 5}] \in SliderLines(game.board, 3)
  /\ MovesFrom(LegalMoves.moves, 4) # {}

\* the enemy piece a move takes off the board stands on this square
CapturedSquare(m) ==
  IF m.move_type.tag = "EnPassantCapture"
  THEN (IF m.side = White THEN m.to_square - 8 ELSE m.to_square + 8)
  ELSE m.to_square

\* C27: in check by exactly one piece, every move of a piece other than the
\* king captures the checker or, when the checker is a bishop, rook or queen,
\* lands strictly between the checker and the king; in check by two pieces,
\* only the king moves.
C27_CheckRestrictsMoves ==
  /\ Cardinality(Checkers(game.board)) = 1 =>
       \A checker \in Checkers(game.board) :
         \A m \in LegalMoves.moves :
           m.piece # King =>
             \/ is_capture(m) /\ CapturedSquare(m) = checker
             \/ /\ Ref_piece_at(game.board, checker, opposite(SideToMove)) \in Sliders
                /\ m.to_square \in Ref_between(checker, OwnKing(game.board))
  /\ Cardinality(Checkers(game.board)) = 2 =>
       \A m \in LegalMoves.moves : m.piece = King

\* single check by the rook on e8 after the knight left the e-file: white can
\* interpose on e3 and take the rook with the bishop
C27_Witness ==
  /\ Checkers(game.board) = {59}
  /\ Move(22, 19, Quiet, Rook, White) \in LegalMoves.moves
  /\ Move(32, 59, Capture(Rook), Bishop, White) \in LegalMoves.moves

\* double check by the rook on e8 and the knight that moved to d4 or f4
C27_WitnessDouble ==
  /\ Cardinality(Checkers(game.board)) = 2
  /\ LegalMoves.moves # {}

\* C28: after any king move of get_legal_moves, castling included, no enemy
\* piece attacks the square the king stands on.
C28_KingMovesAreSafe ==
  \A m \in LegalMoves.moves :
    m.piece = King => ~Ref_in_check(Ref_apply(game.board, m), SideToMove)

\* the king on e2 is checked by the rook on e8: it has moves, none of them to
\* e1 or e3, and e1 is attacked only once the king has left e2
C28_Witness ==
  /\ Checkers(game.board) = {59}
  /\ OwnKing(game.board) = 11
  /\ \E m \in LegalMoves.moves : m.piece = King
  /\ \A m \in LegalMoves.moves : m.piece = King => m.to_square \notin {3, 19}
  /\ ~Ref_attacked(game.board, 3, Black)


\* C29: after any sequence of makes and undos, threefold_repetition is true
\* exactly when the occurrence count of the current position is at least
\* three.
C29_ThreefoldFlagTracksCount ==
  (AfterMake \/ AfterUndo) =>
    (game.threefold_repetition <=> Count(game, ZobristHasher_hash(game.board)) >= 3)


(***************************************************************************)
(* Depth extension and stand-pat score of the search (SearchSpec).         *)
(***************************************************************************)

\* the frame that called the frame on top of the stack
Caller == search.frames[Len(search.frames) - 1]

\* the call on top of the stack is a call of minimax: by the worker or by
\* minimax (at the horizon its frame is the one of the qsearch it returns)
MinimaxNode ==
  /\ search.state = "running"
  /\ Len(search.frames) >= 2
  /\ Caller.fn \in {"worker", "minimax"}

\* what the node added to the max_depth it was called with
Extension == (IF Top.fn = "qsearch" THEN Top.max_depth - 3 ELSE Top.max_depth) - Caller.max_depth

\* C31: a minimax node adds one to the remaining depth when the side to move
\* is in check and when it has exactly one legal move, and adds nothing at
\* every other node.
C31_DepthExtension ==
  MinimaxNode =>
    Extension = IF Top.in_check \/ Len(Top.legal_moves) = 1 THEN 1 ELSE 0

\* C32: the stand-pat score of a qsearch node is eval(position) when White is
\* to move and -eval(position) when Black is to move.
C32_StandPatFromSideToMove ==
  search.state = "running" =>
    \A i \in DOMAIN search.frames :
      search.frames[i].fn = "qsearch" =>
        search.frames[i].stand_pat =
          IF search.frames[i].at_call.board.side_to_move = White
          THEN search.frames[i].eval ELSE -search.frames[i].eval


(***************************************************************************)
(* Move::prio with its killer list (move.rs).  The score is a u32 close   *)
(* to u32::MAX for a killer move: it is kept as two 16-bit limbs, lowest  *)
(* first.  MAX_GAME_PLY and MAX_KILLER_MOVES are imported from            *)
(* crate::search, which does not define them.                             *)
(***************************************************************************)

\* plies of the killer list (MAX_GAME_PLY)
MaxGamePly == 2

\* killer slots per ply
MAX_KILLER_MOVES == 2

U32(l1, l0) == <<l0, l1>>

\* a small usize as u32
as_u32(n) == <<n % LIMB, n \div LIMB>>

\* x + n and x - n on a u32, modulo 2^32
u32_add(x, n) == <<(x[1] + n) % LIMB, (x[2] + (x[1] + n) \div LIMB) % LIMB>>

u32_sub(x, n) == <<(x[1] - n) % LIMB, (x[2] + (x[1] - n) \div LIMB) % LIMB>>

\* a < b on u32
u32_lt(a, b) == a[2] < b[2] \/ (a[2] = b[2] /\ a[1] < b[1])

NULL_MOVE == Move(100, 100, Quiet, Pawn, White)

\* u32::MAX - 256
MVV_LVA_OFFSET == U32(65535, 65279)

KILLER_SCORE == 10

\* the while loop of Move::prio: the first slot whose killer of this ply is
\* the move sets the score, and a score other than 0 ends the loop
killer_score(m, ply, killer_list) ==
  LET hits == {i \in 0..(MAX_KILLER_MOVES - 1) : killer_list[i][ply] = m}
  IN  IF hits = {} THEN as_u32(0)
      ELSE u32_sub(MVV_LVA_OFFSET, ((CHOOSE i \in hits : \A j \in hits : i <= j) + 1) * KILLER_SCORE)

Move_prio(m, ply, killer_list) ==
  LET score == IF is_capture(m) THEN as_u32(MVVLA[m.move_type.victim + 1][m.piece + 1])
               ELSE killer_score(m, ply, killer_list)
  IN  IF is_promotion(m) THEN u32_add(score, m.move_type.promo) ELSE score

\* ------------------------------------------------------ MoveOrderSpec
\* Move::prio applied to every kind of move the generator builds, for every
\* content of the killer slots of the plies.

\* one move of every piece, move type, victim and promotion piece
PrioMoves ==
  {Move(27, 36, Capture(victim), piece, White) : victim \in ALL_BUT_KING, piece \in Piece_VALUES}
    \cup {Move(32, 41, EnPassantCapture(Pawn), Pawn, White)}
    \cup {Move(49, 57, Promotion(promo), Pawn, White) : promo \in PROMOTION_PIECES}
    \cup {Move(49, 56, CapturePromotion(victim, promo), Pawn, White)
            : victim \in ALL_BUT_KING \ {Pawn}, promo \in PROMOTION_PIECES}
    \cup {Move(27, 35, Quiet, piece, White) : piece \in Piece_VALUES}
    \cup {Move(0, 0, CastleShort, King, White), Move(0, 0, CastleLong, King, White)}

\* what a killer slot may hold: no move yet or a move that is not a capture
KillerCandidates ==
  {NULL_MOVE, Move(27, 35, Quiet, Knight, White), Move(27, 35, Quiet, Pawn, White),
   Move(0, 0, CastleShort, King, White), Move(49, 57, Promotion(Queen), Pawn, White)}

KillerLists == [0..(MAX_KILLER_MOVES - 1) -> [0..(MaxGamePly - 1) -> KillerCandidates]]

MoveOrderInit ==
  /\ GameInit(NoGame)
  /\ magic_bb = NotBuilt
  /\ ray_tables = NotBuilt
  /\ search \in {[state |-> "ordering", moves |-> PrioMoves, ply |-> ply, killer_list |-> killer_list]
                   : ply \in 0..(MaxGamePly - 1), killer_list \in KillerLists}
  /\ pool = Idle

\* m.prio(ply, killer_list) for every move
Prio ==
  /\ search.state = "ordering"
  /\ search' = [state |-> "scored", moves |-> search.moves, ply |-> search.ply,
                killer_list |-> search.killer_list,
                score |-> [m \in search.moves |-> Move_prio(m, search.ply, search.killer_list)]]
  /\ UNCHANGED <<game_vars, table_vars, pool>>

MoveOrderNext == Prio

MoveOrderSpec == MoveOrderInit /\ [][MoveOrderNext]_vars

Scored == search.state = "scored"

Captures == {m \in search.moves : is_capture(m)}

\* the slots of the current ply that hold the move
KillerSlots(m) == {i \in 0..(MAX_KILLER_MOVES - 1) : search.killer_list[i][search.ply] = m}

\* C33: a capture of a more valuable victim has a strictly higher priority
\* than a capture of a less valuable one, whatever the attackers and the
\* promotion pieces; of two captures of the same victim without promotion
\* the one by the less valuable attacker has the strictly higher priority.
C33_VictimThenAttacker ==
  Scored =>
    \A a, b \in Captures :
      /\ a.move_type.victim > b.move_type.victim => u32_lt(search.score[b], search.score[a])
      /\ (/\ a.move_type.victim = b.move_type.victim
          /\ ~is_promotion(a) /\ ~is_promotion(b)
          /\ a.piece < b.piece) => u32_lt(search.score[b], search.score[a])

\* the closest pair: a pawn takes a rook and promotes to a queen, a king
\* takes a queen; and a pawn and a queen both take a queen
C33_Witness ==
  /\ Scored
  /\ search.score[Move(49, 56, CapturePromotion(Rook, Queen), Pawn, White)] = as_u32(49)
  /\ search.score[Move(27, 36, Capture(Queen), King, White)] = as_u32(50)
  /\ u32_lt(search.score[Move(27, 36, Capture(Queen), Queen, White)],
            search.score[Move(27, 36, Capture(Queen), Pawn, White)])

\* C34: a move that is not a capture and is a killer move of the current ply
\* has a priority strictly below that of every capture and strictly above
\* that of every move that is neither a capture nor a killer; a killer of the
\* first slot ranks above a killer of the second.
C34_KillersBelowCaptures ==
  Scored =>
    \A k \in search.moves \ Captures :
      KillerSlots(k) # {} =>
        /\ \A c \in Captures : u32_lt(search.score[k], search.score[c])
        /\ \A q \in search.moves \ Captures :
             KillerSlots(q) = {} => u32_lt(search.score[q], search.score[k])
        /\ \A l \in search.moves \ Captures :
             0 \in KillerSlots(k) /\ KillerSlots(l) = {1} => u32_lt(search.score[l], search.score[k])


\* ------------------------------------------------------------- C35
\* the blockers init_move_table enumerates for the square of the slice
BlockersOfIndices ==
  {get_blocker_from_idx(blocker_idx, magic_masks(magic_bb.piece)[magic_bb.square])
     : blocker_idx \in 0..(2 ^ magic_square_bits(magic_bb.piece, magic_bb.square) - 1)}

\* C35: ROOK_SQUARE_BITS[square] and BISHOP_SQUARE_BITS[square] are the number
\* of squares of rook_masks[square] and bishop_masks[square], at most 12 and
\* 9, and the blocker indices 0 .. 2^k - 1 give through get_blocker_from_idx
\* every subset of the mask, each exactly once.
C35_SquareBitsCountMask ==
  magic_bb.built_by # "none" =>
    /\ magic_square_bits(magic_bb.piece, magic_bb.square)
         = Cardinality(magic_masks(magic_bb.piece)[magic_bb.square])
    /\ magic_square_bits(magic_bb.piece, magic_bb.square)
         <= (IF magic_bb.piece = Rook THEN 12 ELSE 9)
    /\ BlockersOfIndices = SUBSET magic_masks(magic_bb.piece)[magic_bb.square]
    /\ Cardinality(BlockersOfIndices) = 2 ^ magic_square_bits(magic_bb.piece, magic_bb.square)

\* the table of a rook in the corner was built from its twelve mask squares:
\* the last index gives the whole mask, index 5 its lowest and third lowest
\* square
C35_Witness ==
  /\ magic_bb.built_by # "none"
  /\ magic_bb.piece = Rook
  /\ magic_bb.square = 0
  /\ Cardinality(rook_masks[0]) = 12
  /\ get_blocker_from_idx(4095, rook_masks[0]) = rook_masks[0]
  /\ get_blocker_from_idx(5, rook_masks[0]) = {1, 3}


\* ------------------------------------------------------------- C36
\* the side to move is in check, and only by the pawn that has just made a
\* double push
CheckedByPushedPawn ==
  /\ AfterMake
  /\ DoublePush(LastMove)
  /\ Checkers(game.board) = {LastMove.to_square}

\* the en-passant captures of the pushed pawn that leave the capturer's king
\* unattacked
SavingEnPassants ==
  {EnPassantBy(game.board, p) : p \in
     {q \in PawnsBeside(game.board, LastMove) :
        ~Ref_in_check(Ref_apply(game.board, EnPassantBy(game.board, q)), SideToMove)}}

\* C36: when the side to move is in check only by a pawn that has just made a
\* double push, every en-passant capture of that pawn that does not expose
\* the capturer's king is among the legal moves, and the position is not
\* reported as Checkmate while there is one.
C36_EnPassantAnswersPawnCheck ==
  (CheckedByPushedPawn /\ SavingEnPassants # {}) =>
    /\ SavingEnPassants \subseteq LegalMoves.moves
    /\ MoveResult # "Checkmate"


\* ------------------------------------------------------------- C37
\* the moves made so far
MovesMade == {stack[i].m : i \in DOMAIN stack}

\* the king of the side has moved (castling included)
KingHasMoved(side) == \E m \in MovesMade : m.side = side /\ m.piece = King

\* the rook that started on the corner has left it or was captured on it
OriginalRookGone(kind, side) ==
  \E m \in MovesMade :
    \/ m.side = side /\ m.piece = Rook /\ m.from_square = CastleCorner(kind, side)
    \/ m.side = opposite(side) /\ is_capture(m) /\ ~is_castling(m)
         /\ m.to_square = CastleCorner(kind, side)

\* C37: in a game played from the standard start a castling move is among
\* the legal moves only if the king of the side to move has never moved and
\* the rook that started on the castling corner has neither moved nor been
\* captured, whatever rook stands on the corner now.
C37_CastleOnlyWithOriginalRook ==
  FromStandardStart =>
    \A kind \in CastleKinds :
      CastleMove(kind, SideToMove) \in LegalMoves.moves =>
        /\ ~KingHasMoved(SideToMove)
        /\ ~OriginalRookGone(kind, SideToMove)


\* ------------------------------------------------------------- C38
\* a call has returned to a loop that is about to undo the move it made; the
\* call started right after that make, so pos_hash at the call is the key the
\* make incremented
BeforeUndo == JustReturned /\ search.state = "running" /\ Top.fn # "worker"

\* C38: when the makes and undos of a call have all been done (make m,
\* make m2, undo m2, ... as the search nests them) every key has the
\* occurrence count it had at the call; and the undo that follows decrements
\* the key its make incremented, whose count is not 0.
C38_CountsSurviveMakeUndo ==
  /\ JustReturned => SameCounts(game, search.ret[1].at_call)
  /\ BeforeUndo =>
       /\ game.pos_hash = search.ret[1].at_call.pos_hash
       /\ Count(game, game.pos_hash) > 0


\* ------------------------------------------------------------- C39
\* the positions the makes of the game have produced and counted
Counted == 2..Len(history)

SameRights(b1, b2) ==
  /\ b1.castling_right_long = b2.castling_right_long
  /\ b1.castling_right_short = b2.castling_right_short

\* the counted positions that differ from the current one in nothing but
\* their castling rights
SameButForRights ==
  {i \in Counted :
     /\ history[i].pieces = game.board.pieces
     /\ history[i].side_to_move = game.board.side_to_move
     /\ history[i].en_passant_square = game.board.en_passant_square
     /\ ~SameRights(history[i], game.board)}

\* C39: in a game played by makes only, a position whose castling rights
\* differ from those of the current position has another key, and the count
\* of the current key is the number of counted positions equal to the current
\* one, castling rights included: a threefold repetition is never made up of
\* positions with different rights.
C39_RightsSeparateCounts ==
  (undos = 0 /\ AfterMake) =>
    /\ \A i \in Counted :
         ~SameRights(history[i], game.board) =>
           ZobristHasher_hash(history[i]) # game.pos_hash
    /\ Count(game, game.pos_hash)
         = Cardinality({i \in Counted : history[i] = game.board})

\* the placement has come back three times, once with more castling rights:
\* the count of the current key is 2 and no repetition is reported
C39_Witness ==
  /\ undos = 0 /\ AfterMake
  /\ Cardinality(SameButForRights) = 1
  /\ Cardinality({i \in Counted : history[i] = game.board}) = 2
  /\ Count(game, game.pos_hash) = 2
  /\ ~game.threefold_repetition


(***************************************************************************)
(* The workers of find_best_legal_move at the level of their GameStates.   *)
(* game is the caller's GameState (&mut GameState); every closure starts   *)
(* with "let mut branched_game = game.clone()" and runs its makes and      *)
(* undos on branched_game.  GameState derives Clone and owns its board,    *)
(* counters and HashMap; pl_moves and magics are shared references to      *)
(* tables nothing writes.  The scheduler interleaves the workers' steps.   *)
(***************************************************************************)

\* most root moves handed to the pool in this specification
MaxBranches == 2

\* most moves a worker makes below its root move
MaxWorkerMoves == 1

\* the closure works on the caller's GameState instead of a clone
clone_storage_is_callers(i) == 0

\* the storage of branched_game in worker i: a GameState of its own (0 is
\* the caller's GameState)
clone_storage(i) == i

\* the GameState worker i reads and the write of one
branched_game(i) == IF clone_storage(i) = 0 THEN game ELSE pool.clones[clone_storage(i)]

stored(clones, i, g) == IF clone_storage(i) = 0 THEN clones ELSE [clones EXCEPT ![clone_storage(i)] = g]

\* Kh1 and pawn a3 against Kh3: White has the two moves Kg1 and a4
Board_two_moves ==
  PlaceBoard((0 :> <<King, White>>) @@ (23 :> <<Pawn, White>>) @@ (16 :> <<King, Black>>),
             White, 0, NoRights, NoRights)

BranchGames == {Game(Board_two_moves, <<>>, FALSE, FALSE)}

BranchInit ==
  /\ GameInit(BranchGames)
  /\ magic_bb = NotBuilt
  /\ ray_tables = NotBuilt
  /\ search = Idle
  /\ \E legal_moves \in MoveLists(get_legal_moves(game).moves, MaxBranches) :
       pool = [state |-> "installed", legal_moves |-> legal_moves, at_call |-> game,
               clones |-> [i \in 1..Len(legal_moves) |-> <<>>],
               workers |-> [i \in 1..Len(legal_moves) |->
                              [pc |-> "queued", last |-> <<>>, stack |-> <<>>, moves |-> 0]]]

\* a closure starts: game.clone(), then update_board_with_move(m)
WorkerStarts ==
  /\ pool.state = "installed"
  /\ \E i \in DOMAIN pool.workers :
       /\ pool.workers[i].pc = "queued"
       /\ \E made \in {update_board_with_move(game, pool.legal_moves[i])} :
            /\ game' = IF clone_storage(i) = 0 THEN made ELSE game
            /\ pool' = [pool EXCEPT !.clones = stored(@, i, made),
                                    !.workers[i] = [@ EXCEPT !.pc = "running", !.last = made]]
  /\ UNCHANGED <<stack, history, seen, undos, plan, last_op, table_vars, search>>

\* a make of the worker's minimax or qsearch
WorkerMakes ==
  /\ pool.state = "installed"
  /\ \E i \in DOMAIN pool.workers : \E w \in {pool.workers[i]} : \E cur \in {branched_game(i)} :
       /\ w.pc = "running"
       /\ w.moves < MaxWorkerMoves
       /\ \E m \in get_legal_moves(cur).moves :
            \E made \in {update_board_with_move(cur, m)} :
              /\ game' = IF clone_storage(i) = 0 THEN made ELSE game
              /\ pool' = [pool EXCEPT !.clones = stored(@, i, made),
                                      !.workers[i] = [w EXCEPT !.last = made,
                                                               !.stack = Append(@, Saved(cur, m)),
                                                               !.moves = @ + 1]]
  /\ UNCHANGED <<stack, history, seen, undos, plan, last_op, table_vars, search>>

\* the undo of the worker's last make
WorkerUndoes ==
  /\ pool.state = "installed"
  /\ \E i \in DOMAIN pool.workers : \E w \in {pool.workers[i]} : \E cur \in {branched_game(i)} :
       /\ w.pc = "running"
       /\ w.stack # <<>>
       /\ \E top \in {w.stack[Len(w.stack)]} :
            \E undone \in {update_board_undo_move(cur, top.m, top.castling_right_long,
                                                  top.castling_right_short,
                                                  top.half_move_of_last_capture)} :
              /\ game' = IF clone_storage(i) = 0 THEN undone ELSE game
              /\ pool' = [pool EXCEPT !.clones = stored(@, i, undone),
                                      !.workers[i] = [w EXCEPT !.last = undone,
                                                               !.stack = SubSeq(@, 1, Len(@) - 1)]]
  /\ UNCHANGED <<stack, history, seen, undos, plan, last_op, table_vars, search>>

\* the worker's minimax has returned: the closure ends and branched_game is
\* dropped
WorkerEnds ==
  /\ pool.state = "installed"
  /\ \E i \in DOMAIN pool.workers :
       /\ pool.workers[i].pc = "running"
       /\ pool.workers[i].stack = <<>>
       /\ pool' = [pool EXCEPT !.workers[i].pc = "done"]
  /\ UNCHANGED <<game_vars, table_vars, search>>

\* pool.install returns when every closure has ended
InstallReturns ==
  /\ pool.state = "installed"
  /\ \A i \in DOMAIN pool.workers : pool.workers[i].pc = "done"
  /\ pool' = [pool EXCEPT !.state = "returned"]
  /\ UNCHANGED <<game_vars, table_vars, search>>

BranchNext == WorkerStarts \/ WorkerMakes \/ WorkerUndoes \/ WorkerEnds \/ InstallReturns

BranchSpec == BranchInit /\ [][BranchNext]_vars

\* C40: in every interleaving of the workers the caller's GameState is what
\* it was at the call, during the call and after it, and a worker that is
\* running finds in its GameState what it wrote there last: no other worker
\* has changed its board, counters or occurrence counts.
C40_WorkersOwnTheirClones ==
  /\ game = pool.at_call
  /\ \A i \in DOMAIN pool.workers :
       pool.workers[i].pc = "running" => branched_game(i) = pool.workers[i].last

\* two workers are in the middle of their searches at the same time, each
\* with a move made below its root move, on positions that differ from each
\* other and from the caller's
C40_Witness ==
  /\ pool.state = "installed"
  /\ Len(pool.legal_moves) = 2
  /\ \A i \in DOMAIN pool.workers :
       pool.workers[i].pc = "running" /\ pool.workers[i].stack # <<>>
  /\ branched_game(1).board # branched_game(2).board
  /\ branched_game(1).board # game.board
  /\ game = pool.at_call

\* the call has returned after both workers made and undid a move
C40_WitnessReturned ==
  /\ pool.state = "returned"
  /\ \A i \in DOMAIN pool.workers : pool.workers[i].moves = 1
  /\ game = pool.at_call

====
